---------------------------- MODULE Spec2Model ----------------------------
(***************************************************************************)
(* A model of the Theto plotting session of src/theto/theto.py: the       *)
(* workflow-stage gate (_validate_workflow), the session state it guards  *)
(* and the stage methods add_source, add_widget, prepare_plot, add_layer, *)
(* add_path, add_data_table and render_plot, together with the input      *)
(* router of src/theto/coordinate_utils.py that add_source calls.         *)
(*                                                                         *)
(* Python dicts are functions whose domain is the set of keys; a value    *)
(* that may be None is a sequence of length 0 (None) or 1 (the value).    *)
(***************************************************************************)
EXTENDS Integers, Sequences, FiniteSets, TLC

VARIABLES api_key, validation, sources, remove_columns, xmin, xmax, ymin, ymax,
          widgets, views, custom_js, plot, columndatasources, colorbar,
          legend, data_tables, last, done, calls,
          input, result

\* the session's own fields (everything but the record of the calls made)
session == <<api_key, validation, sources, remove_columns, xmin, xmax, ymin, ymax,
             widgets, views, custom_js, plot, columndatasources, colorbar,
             legend, data_tables>>

vars == <<api_key, validation, sources, remove_columns, xmin, xmax, ymin, ymax,
          widgets, views, custom_js, plot, columndatasources, colorbar,
          legend, data_tables, last, done, calls, input, result>>

--------------------------------------------------------------------------
\* Bounds of the model

\* longest batch of records given to add_source in the workflow specification
MaxBatch == 1
\* longest batch of records given to add_source in the sources specification
MaxSourceBatch == 2
\* most calls that change the session, in one session
MaxCalls == 5
\* most calls that change the session, in one session of the sources
\* specification
MaxSourceCalls == 2

--------------------------------------------------------------------------
\* Small helpers for Python values

None == <<>>

Some(v) == <<v>>

IsNone(o) == Len(o) = 0

Val(o) == o[1]

EmptyDict == <<>>

\* d[k] = v of a Python dict
Put(d, k, v) == [x \in (DOMAIN d) \cup {k} |-> IF x = k THEN v ELSE d[x]]

\* d.pop(k) of a Python dict
Drop(d, k) == IF DOMAIN d = {k} THEN EmptyDict ELSE [x \in (DOMAIN d) \ {k} |-> d[x]]

SetMin(S) == CHOOSE m \in S : \A n \in S : m <= n

SetMax(S) == CHOOSE m \in S : \A n \in S : m >= n

\* the values tried for an argument: all of them while the call can still read
\* it, one of them once the arguments before it make the call raise
Given(read, values) == IF read THEN values ELSE {CHOOSE v \in values : TRUE}

\* a label no source is ever registered under
UnknownLabel == "zz"

Stages == {"add_source", "add_widget", "prepare_plot", "add_layer", "render_plot"}

OK == "ok"

WorkflowOrderError == "WorkflowOrderError"

\* the workflow check raised nothing
Pass == "pass"

--------------------------------------------------------------------------
\* Theto._validate_workflow: the message of the WorkflowOrderError raised for
\* stage when the validation flags are v (written without the back quotes
\* around method names), or Pass when the check passes.

\* the add_source check without its add_widget test
ValidateAddSourceNoWidget(v) ==
  IF v["prepare_plot"] THEN "New sources cannot be added after prepare_plot has been called."
  ELSE IF v["add_layer"] THEN "New sources cannot be added after add_layer has been called."
  ELSE IF v["render_plot"] THEN "Method render_plot has already been called. Start new workflow."
  ELSE Pass

\* lines 127-135
ValidateAddSource(v) ==
  IF v["add_widget"] THEN "New sources cannot be added after add_widget has been called."
  ELSE IF v["prepare_plot"] THEN "New sources cannot be added after prepare_plot has been called."
  ELSE IF v["add_layer"] THEN "New sources cannot be added after add_layer has been called."
  ELSE IF v["render_plot"] THEN "Method render_plot has already been called. Start new workflow."
  ELSE Pass

\* the add_widget check without its prepare_plot test
ValidateAddWidgetNoPrepare(v) ==
  IF ~v["add_source"] THEN "Method add_source must be called before adding a widget."
  ELSE IF v["add_layer"] THEN "New widgets cannot be added after add_layer has been called."
  ELSE IF v["render_plot"] THEN "Method render_plot has already been called. Start new workflow."
  ELSE Pass

\* lines 136-144
ValidateAddWidget(v) ==
  IF ~v["add_source"] THEN "Method add_source must be called before adding a widget."
  ELSE IF v["prepare_plot"] THEN "New widgets cannot be added after prepare_plot has been called."
  ELSE IF v["add_layer"] THEN "New widgets cannot be added after add_layer has been called."
  ELSE IF v["render_plot"] THEN "Method render_plot has already been called. Start new workflow."
  ELSE Pass

\* the prepare_plot check without its add_layer test
ValidatePreparePlotNoLayer(v) ==
  IF ~v["add_source"] THEN "Method add_source must be called before calling prepare_plot."
  ELSE IF v["render_plot"] THEN "Method render_plot has already been called. Start new workflow."
  ELSE Pass

\* lines 145-151
ValidatePreparePlot(v) ==
  IF ~v["add_source"] THEN "Method add_source must be called before calling prepare_plot."
  ELSE IF v["add_layer"] THEN "Plot cannot be prepared after add_layer has been called."
  ELSE IF v["render_plot"] THEN "Method render_plot has already been called. Start new workflow."
  ELSE Pass

\* the add_layer check without its prepare_plot test
ValidateAddLayerNoPrepare(v) ==
  IF ~v["add_source"] THEN "Method add_source must be called before adding a layer."
  ELSE IF v["render_plot"] THEN "Method render_plot has already been called. Start new workflow."
  ELSE Pass

\* the add_layer check with only its render_plot test
ValidateAddLayerOnlyRender(v) ==
  IF v["render_plot"] THEN "Method render_plot has already been called. Start new workflow."
  ELSE Pass

\* lines 152-158
ValidateAddLayer(v) ==
  IF ~v["add_source"] THEN "Method add_source must be called before adding a layer."
  ELSE IF ~v["prepare_plot"] THEN "New layers cannot be added after prepare_plot has been called."
  ELSE IF v["render_plot"] THEN "Method render_plot has already been called. Start new workflow."
  ELSE Pass

\* the render_plot check without its add_layer test
ValidateRenderPlotNoLayer(v) ==
  IF ~v["add_source"] THEN "Method add_source must be called before rendering the plot."
  ELSE IF ~v["prepare_plot"] THEN "Method prepare_plot must be called before rendering the plot."
  ELSE Pass

\* lines 159-165
ValidateRenderPlot(v) ==
  IF ~v["add_source"] THEN "Method add_source must be called before rendering the plot."
  ELSE IF ~v["prepare_plot"] THEN "Method prepare_plot must be called before rendering the plot."
  ELSE IF ~v["add_layer"] THEN "Method add_layer must be called before rendering the plot."
  ELSE Pass

\* the add_path check without its add_widget test
ValidateAddPathNoWidget(v) ==
  IF ~v["add_source"] THEN "Method add_source must be called before adding a path."
  ELSE IF ~v["prepare_plot"] THEN "Method prepare_plot must be called before adding a path."
  ELSE IF v["render_plot"] THEN "Method render_plot has already been called. Start new workflow."
  ELSE Pass

\* lines 166-174
ValidateAddPath(v) ==
  IF ~v["add_source"] THEN "Method add_source must be called before adding a path."
  ELSE IF ~v["prepare_plot"] THEN "Method prepare_plot must be called before adding a path."
  ELSE IF v["render_plot"] THEN "Method render_plot has already been called. Start new workflow."
  ELSE IF v["add_widget"] THEN "Plot contains widgets, which are not compatible with paths."
  ELSE Pass

\* lines 175-181
ValidateAddDataTable(v) ==
  IF ~v["add_source"] THEN "Method add_source must be called before adding a data table."
  ELSE IF ~v["prepare_plot"] THEN "Method prepare_plot must be called before adding a data table."
  ELSE IF v["render_plot"] THEN "Method render_plot has already been called. Start new workflow."
  ELSE Pass

ValidateWorkflow(v, stage) ==
  CASE stage = "add_source" -> ValidateAddSource(v)
    [] stage = "add_widget" -> ValidateAddWidget(v)
    [] stage = "prepare_plot" -> ValidatePreparePlot(v)
    [] stage = "add_layer" -> ValidateAddLayer(v)
    [] stage = "render_plot" -> ValidateRenderPlot(v)
    [] stage = "add_path" -> ValidateAddPath(v)
    [] stage = "add_data_table" -> ValidateAddDataTable(v)
    [] OTHER -> Pass

\* the record of a call: its stage, how it ended, the message of its
\* WorkflowOrderError (Pass otherwise), the validation flags it started from
\* and, for add_source, how the normalization of its batch ended (lines
\* 255-258: OK or the error raised there; Pass when the call did not get
\* there) and which record of the batch raised it (0 when none did)
Call(stage, outcome, msg) ==
  [stage |-> stage, outcome |-> outcome, msg |-> msg, pre |-> validation,
   norm |-> Pass, bad |-> 0]

\* the stages that have returned normally at least once, in the order of
\* their first return
Done == {done[i] : i \in 1..Len(done)}

\* a call that raised leaving every field of the session as it was
Raise(stage, outcome) ==
  /\ last' = Call(stage, outcome, Pass)
  /\ UNCHANGED session

\* a call stopped by the workflow check
RaiseWorkflow(stage) ==
  /\ last' = Call(stage, WorkflowOrderError, ValidateWorkflow(validation, stage))
  /\ UNCHANGED session

--------------------------------------------------------------------------
\* The input router of coordinate_utils.py.  A record of a batch is
\* [kind, x, y]: what kind of Python value it is and where its geometry lies.
\*   geohash  a geohash string that is no JSON text ('dnrgrfm')
\*   digits   a geohash string made of digits, which is also JSON text ('123')
\*   wkt      well-known text that parses; badwkt: a WKT keyword, then garbage
\*   badstr   a string that is none of these
\*   geojson  JSON text of a feature or geometry; badjson: JSON text without
\*            'geometry' or 'coordinates'
\*   str      a string given with its text, which the code's own tests
\*            classify; the kinds above abbreviate strings already classified
\*   pair     a tuple (x, y) = (longitude, latitude)
\*   single   a tuple (x,); triple: a tuple (x, y, 0)
\*   shape    a shapely geometry object
\*   other    any other Python value (an int, None)

Rec(k, x, y) == [kind |-> k, x |-> x, y |-> y]

\* A string is the sequence of its characters.  Two kinds of element stand for
\* more than one character: the coordinate text that follows a WKT keyword
\* ("(..)" when it is well formed, "(" when it is cut short), and a member of
\* a JSON object ("geometry", "coordinates", "name") between "{" and "}".
Str(text) == [kind |-> "str", x |-> 0, y |-> 0, text |-> text]

BASE32 ==
  <<"0", "1", "2", "3", "4", "5", "6", "7", "8", "9", "b", "c", "d", "e", "f",
    "g", "h", "j", "k", "m", "n", "p", "q", "r", "s", "t", "u", "v", "w", "x",
    "y", "z">>

\* v in BASE32, for one character
InBase32(v) == \E k \in 1..Len(BASE32) : BASE32[k] = v

\* BASE32.index(v), for a character of BASE32
Base32Index(v) == (CHOOSE k \in 1..Len(BASE32) : BASE32[k] = v) - 1

\* the list as Python reads it: 'LINEARRING' 'MULTILINESTRING' is one string
VALID_WKT_TYPES ==
  {<<"G", "E", "O", "M", "E", "T", "R", "Y">>,
   <<"P", "O", "I", "N", "T">>,
   <<"M", "U", "L", "T", "I", "P", "O", "I", "N", "T">>,
   <<"L", "I", "N", "E", "S", "T", "R", "I", "N", "G">>,
   <<"L", "I", "N", "E", "A", "R", "R", "I", "N", "G", "M", "U", "L", "T", "I", "L", "I", "N", "E", "S", "T", "R", "I", "N", "G">>,
   <<"P", "O", "L", "Y", "G", "O", "N">>,
   <<"M", "U", "L", "T", "I", "P", "O", "L", "Y", "G", "O", "N">>}

\* Coordinates of the geohash codec are whole numbers of units, Unit to the
\* degree, which holds every interval, centre and error of a code of at most
\* ExactLen characters exactly (as the doubles of the code do); for a longer
\* code the fraction of a unit is dropped.
Unit == 1024

ExactLen == 4

\* format(BASE32.index(v), 'b').zfill(5)
FiveBits(v) ==
  [j \in 1..5 |-> (Base32Index(v) \div (2 ^ (5 - j))) % 2]

\* divide_range_decode: the range after the call
DivideRangeDecode(coordinate_range, b) ==
  LET mid == (coordinate_range[1] + coordinate_range[2]) \div 2
  IN  IF b THEN <<mid, coordinate_range[2]>> ELSE <<coordinate_range[1], mid>>

\* one turn of the loop that gives the even bits to the latitude
BisectBitLatitudeFirst(ranges, v, is_even_bit) ==
  IF is_even_bit
  THEN [ranges EXCEPT !.latitude_range = DivideRangeDecode(@, v # 0)]
  ELSE [ranges EXCEPT !.longitude_range = DivideRangeDecode(@, v # 0)]

\* one turn of the loop of geohash_to_centroid, for the bit v
BisectBit(ranges, v, is_even_bit) ==
  IF is_even_bit
  THEN [ranges EXCEPT !.longitude_range = DivideRangeDecode(@, v # 0)]
  ELSE [ranges EXCEPT !.latitude_range = DivideRangeDecode(@, v # 0)]

\* the five turns of the loop for the bits of one character
BisectChar(ranges, bits, is_even_bit) ==
  LET r1 == BisectBit(ranges, bits[1], is_even_bit)
      r2 == BisectBit(r1, bits[2], ~is_even_bit)
      r3 == BisectBit(r2, bits[3], is_even_bit)
      r4 == BisectBit(r3, bits[4], ~is_even_bit)
  IN  BisectBit(r4, bits[5], is_even_bit)

\* the loop of geohash_to_centroid over the bits of the first n characters:
\* the two ranges at its end.  The first bit of the n-th character is an
\* even bit when n is odd.  The bounds of a range are always in order; the
\* test makes the ranges of the characters before a value before the bits of
\* the n-th are read, which keeps the evaluation shallow.
RECURSIVE Bisect(_, _)
Bisect(geohash, n) ==
  IF n = 0 THEN [latitude_range |-> <<-90 * Unit, 90 * Unit>>,
                 longitude_range |-> <<-180 * Unit, 180 * Unit>>]
  ELSE LET ranges == Bisect(geohash, n - 1)
       IN  IF ranges.longitude_range[1] <= ranges.longitude_range[2]
           THEN BisectChar(ranges, FiveBits(geohash[n]), n % 2 = 1)
           ELSE ranges

Abs(n) == IF n < 0 THEN -n ELSE n

\* geohash_to_centroid: str.index raises ValueError for a character that is
\* not in BASE32; otherwise the centre, the errors, and the two ranges the
\* loop ended with
GeohashToCentroid(geohash) ==
  IF \E i \in 1..Len(geohash) : ~InBase32(geohash[i])
  THEN [outcome |-> "ValueError"]
  ELSE LET r == Bisect(geohash, Len(geohash))
           lat == r.latitude_range
           lon == r.longitude_range
       IN  [outcome |-> OK,
            latitude |-> (lat[1] + lat[2]) \div 2,
            longitude |-> (lon[1] + lon[2]) \div 2,
            latitude_error |-> Abs(lat[1] - lat[2]) \div 2,
            longitude_error |-> Abs(lon[1] - lon[2]) \div 2,
            latitude_range |-> lat,
            longitude_range |-> lon]

\* geohash_to_shape with the two margins exchanged
GeohashToShapeSwapped(value) ==
  LET c == GeohashToCentroid(value)
  IN  IF c.outcome # OK THEN [outcome |-> c.outcome]
      ELSE [outcome |-> OK,
            minx |-> c.longitude - c.latitude_error,
            miny |-> c.latitude - c.longitude_error,
            maxx |-> c.longitude + c.latitude_error,
            maxy |-> c.latitude + c.longitude_error]

\* geohash_to_shape: the box it returns, or the error of geohash_to_centroid
GeohashToShape(value) ==
  LET c == GeohashToCentroid(value)
  IN  IF c.outcome # OK THEN [outcome |-> c.outcome]
      ELSE [outcome |-> OK,
            minx |-> c.longitude - c.longitude_error,
            miny |-> c.latitude - c.latitude_error,
            maxx |-> c.longitude + c.longitude_error,
            maxy |-> c.latitude + c.latitude_error]

\* str.startswith
StartsWith(text, prefix) ==
  Len(prefix) <= Len(text) /\ SubSeq(text, 1, Len(prefix)) = prefix

ValidateGeohash(text) ==
  IF Len(text) > 12 THEN FALSE
  ELSE \A i \in 1..Len(text) : InBase32(text[i])

ValidateWellknowntext(text) ==
  \E vt \in VALID_WKT_TYPES : StartsWith(text, vt)

\* the geometry types the WKT reader of shapely knows
WktReaderTypes ==
  {<<"P", "O", "I", "N", "T">>,
   <<"L", "I", "N", "E", "S", "T", "R", "I", "N", "G">>,
   <<"L", "I", "N", "E", "A", "R", "R", "I", "N", "G">>,
   <<"P", "O", "L", "Y", "G", "O", "N">>,
   <<"M", "U", "L", "T", "I", "P", "O", "I", "N", "T">>,
   <<"M", "U", "L", "T", "I", "L", "I", "N", "E", "S", "T", "R", "I", "N", "G">>,
   <<"M", "U", "L", "T", "I", "P", "O", "L", "Y", "G", "O", "N">>,
   <<"G", "E", "O", "M", "E", "T", "R", "Y", "C", "O", "L", "L", "E", "C", "T", "I", "O", "N">>}

\* shapely.wkt.loads: OK for a known geometry type followed by well-formed
\* coordinate text, the reader's error otherwise
WktLoads(text) ==
  IF \E t \in WktReaderTypes : text = Append(t, "(..)") THEN OK
  ELSE "WKTReadingError"

Digits == {"0", "1", "2", "3", "4", "5", "6", "7", "8", "9"}

AllDigits(text) == text # <<>> /\ \A i \in 1..Len(text) : text[i] \in Digits

\* a JSON integer: digits without a leading zero
JsonInt(text) == AllDigits(text) /\ (Len(text) = 1 \/ text[1] # "0")

\* json.loads: the type of the Python value it returns, or "error" when it
\* raises.  Numbers, the literal true and objects are the JSON texts among
\* the strings of the model.
JsonLoads(text) ==
  IF JsonInt(text) THEN "int"
  ELSE IF \E k \in 2..(Len(text) - 1) :
            /\ JsonInt(SubSeq(text, 1, k - 1))
            /\ text[k] = "e"
            /\ AllDigits(SubSeq(text, k + 1, Len(text)))
       THEN "float"
  ELSE IF text = <<"t", "r", "u", "e">> THEN "bool"
  ELSE IF Len(text) >= 2 /\ text[1] = "{" /\ text[Len(text)] = "}" THEN "dict"
  ELSE "error"

\* key in json_dict, for a dict
HasKey(text, key) == \E i \in 1..Len(text) : text[i] = key

\* validate_latlon_pair on a tuple or list: the error it raises, or OK
ValidateLatlonPair(value) ==
  IF value.kind # "pair" THEN "ValueError"
  ELSE IF ~(-180 <= value.x /\ value.x <= 180) THEN "ValueError"
  ELSE IF ~(-90 <= value.x /\ value.x <= 90) THEN "ValueError"
  ELSE OK

\* detect_geojson: the value is a string that json.loads accepts
DetectGeojson(value) ==
  IF value.kind = "str" THEN JsonLoads(value.text) # "error"
  ELSE value.kind \in {"digits", "geojson", "badjson"}

\* import_geojson: the error it raises, or OK
ImportGeojson(value) ==
  CASE value.kind = "str" ->
         IF JsonLoads(value.text) = "error" THEN "JSONDecodeError"
         ELSE IF JsonLoads(value.text) # "dict" THEN "TypeError"
         ELSE IF HasKey(value.text, "geometry") THEN OK
         ELSE IF HasKey(value.text, "coordinates") THEN OK
         ELSE "KeyError"
    [] value.kind = "geojson" -> OK
    [] value.kind = "digits" -> "TypeError"
    [] OTHER -> "KeyError"

\* process_input_value: the error it raises, or OK
ProcessInputValue(value) ==
  CASE value.kind = "str" ->
         IF ValidateGeohash(value.text) THEN OK
         ELSE IF ValidateWellknowntext(value.text) THEN WktLoads(value.text)
         ELSE "ValueError"
    [] value.kind \in {"geohash", "digits"} -> OK
    [] value.kind = "wkt" -> OK
    [] value.kind = "badwkt" -> "WKTReadingError"
    [] value.kind \in {"badstr", "geojson", "badjson"} -> "ValueError"
    [] value.kind \in {"pair", "single", "triple"} -> ValidateLatlonPair(value)
    [] value.kind = "shape" -> OK
    [] OTHER -> "ValueError"

\* the outcome of the first record that fails, in batch order, or OK
RECURSIVE FirstError(_, _)
FirstError(outcomes, i) ==
  IF i > Len(outcomes) THEN OK
  ELSE IF outcomes[i] # OK THEN outcomes[i]
  ELSE FirstError(outcomes, i + 1)

\* the place in the batch of the first record that fails, or 0
RECURSIVE FirstErrorAt(_, _)
FirstErrorAt(outcomes, i) ==
  IF i > Len(outcomes) THEN 0
  ELSE IF outcomes[i] # OK THEN i
  ELSE FirstErrorAt(outcomes, i + 1)

\* the feature-collection path taken as soon as one record passes detect_geojson
AnyGeojson(data) == \E i \in 1..Len(data) : DetectGeojson(data[i])

\* add_source, line 255: all(detect_geojson(v) for v in data)
AllGeojson(data) == \A i \in 1..Len(data) : DetectGeojson(data[i])

\* add_source, lines 255-258: the batch goes through import_geojson when every
\* record passes detect_geojson, and through process_input_value otherwise
NormalizeBatch(data) ==
  IF AllGeojson(data)
  THEN FirstError([i \in 1..Len(data) |-> ImportGeojson(data[i])], 1)
  ELSE FirstError([i \in 1..Len(data) |-> ProcessInputValue(data[i])], 1)

\* add_source, lines 255-258: the place in the batch of the record whose
\* normalization raised, or 0
FailingRecord(data) ==
  IF AllGeojson(data)
  THEN FirstErrorAt([i \in 1..Len(data) |-> ImportGeojson(data[i])], 1)
  ELSE FirstErrorAt([i \in 1..Len(data) |-> ProcessInputValue(data[i])], 1)

\* web Mercator has no image for a latitude of 90 degrees or more
Projectable(value) == -90 < value.y /\ value.y < 90

--------------------------------------------------------------------------
\* Theto.__init__ and the inputs of add_source

NoFlags == [s \in Stages |-> FALSE]

\* every batch of at most n records of the pool, the empty one included
Batches(pool, n) == UNION {[1..k -> pool] : k \in 0..n}

\* data is a list, a DataFrame named with column_name, or a DataFrame given
\* without column_name
DataForms == {"list", "frame", "frame_no_column"}

\* the keyword lists given as metadata: a numeric list 'order' of the batch's
\* length, or a list 'order' of another length
KwargForms == {"order", "order_badlen"}

\* uid: None, the name of a column the data does not have, a list of the
\* batch's length, or a list of another length
UidForms == {"none", "missing", "list", "badlist"}

\* a list is stored in the column 'raw_data'; the DataFrames given here name
\* their geometry column 'raw_data' too
ColumnName(form) == "raw_data"

\* the columns add_source leaves in the DataFrame it registers
CoordColumns == {"x_coords", "y_coords", "x_coord_point", "y_coord_point",
                 "x_coords_transform", "y_coords_transform",
                 "x_coord_point_transform", "y_coord_point_transform"}

SourceColumns(form, kw) ==
  CoordColumns \cup {ColumnName(form), "uid"}
    \cup (IF kw = "order" THEN {"order"} ELSE {})

\* the rows of the DataFrame: one (x, y) per record, in batch order
Rows(data) == [i \in 1..Len(data) |-> <<data[i].x, data[i].y>>]

\* flatten(df['x_coords'].tolist()) and flatten(df['y_coords'].tolist())
XCoords(rows) == {rows[i][1] : i \in 1..Len(rows)}

YCoords(rows) == {rows[i][2] : i \in 1..Len(rows)}

\* a lower bound that takes the value of the newest source
LowerBoundNewest(cur, new) == Some(new)

\* _set_coordinate_bounds, one bound: the lower bounds take the smaller value
LowerBound(cur, new) ==
  IF ~IsNone(cur) THEN (IF new < Val(cur) THEN Some(new) ELSE cur) ELSE Some(new)

\* _set_coordinate_bounds, one bound: the upper bounds take the larger value
UpperBound(cur, new) ==
  IF ~IsNone(cur) THEN (IF new > Val(cur) THEN Some(new) ELSE cur) ELSE Some(new)

\* add_source normalizing its records only once the coordinate bounds are set
AddSourceRunLate(data, form, kw, uid, projRaises) ==
  IF form = "frame_no_column" THEN [outcome |-> "ValueError", bounds |-> FALSE]
  ELSE IF projRaises \/ Len(data) = 0 THEN [outcome |-> "ValueError", bounds |-> FALSE]
  ELSE IF kw = "order_badlen" THEN [outcome |-> "ValueError", bounds |-> FALSE]
  ELSE IF NormalizeBatch(data) # OK THEN [outcome |-> NormalizeBatch(data), bounds |-> TRUE]
  ELSE IF uid = "missing" THEN [outcome |-> "KeyError", bounds |-> TRUE]
  ELSE IF uid = "badlist" THEN [outcome |-> "ValueError", bounds |-> TRUE]
  ELSE [outcome |-> OK, bounds |-> TRUE]

\* add_source up to its first raise: the error (or OK) and whether
\* _set_coordinate_bounds had already run when it was raised
AddSourceRun(data, form, kw, uid, projRaises) ==
  IF form = "frame_no_column" THEN [outcome |-> "ValueError", bounds |-> FALSE]
  ELSE IF NormalizeBatch(data) # OK THEN [outcome |-> NormalizeBatch(data), bounds |-> FALSE]
  ELSE IF projRaises \/ Len(data) = 0 THEN [outcome |-> "ValueError", bounds |-> FALSE]
  ELSE IF kw = "order_badlen" THEN [outcome |-> "ValueError", bounds |-> FALSE]
  ELSE IF uid = "missing" THEN [outcome |-> "KeyError", bounds |-> TRUE]
  ELSE IF uid = "badlist" THEN [outcome |-> "ValueError", bounds |-> TRUE]
  ELSE [outcome |-> OK, bounds |-> TRUE]

\* Theto.add_source
AddSource(pool, n, labels) ==
  IF ValidateWorkflow(validation, "add_source") # Pass
  THEN RaiseWorkflow("add_source")
  ELSE
    \E form \in DataForms :
    \E data \in Given(form # "frame_no_column", Batches(pool, n)) :
    \E projRaises \in (IF \A i \in 1..Len(data) : Projectable(data[i])
                       THEN {FALSE} ELSE BOOLEAN) :
    \E kw \in Given(AddSourceRun(data, form, "order", "none", projRaises).outcome = OK,
                    KwargForms) :
    \E uid \in Given(AddSourceRun(data, form, kw, "none", projRaises).outcome = OK,
                     UidForms) :
    \E label \in Given(AddSourceRun(data, form, kw, uid, projRaises).outcome = OK,
                       labels) :
      LET run == AddSourceRun(data, form, kw, uid, projRaises)
          rows == Rows(data)
      IN
      /\ last' = [Call("add_source", run.outcome, Pass) EXCEPT
                    !.norm = IF form = "frame_no_column" THEN Pass
                             ELSE NormalizeBatch(data),
                    !.bad = IF form = "frame_no_column" THEN 0
                            ELSE FailingRecord(data)]
      /\ IF run.bounds
         THEN /\ xmin' = LowerBound(xmin, SetMin(XCoords(rows)))
              /\ xmax' = UpperBound(xmax, SetMax(XCoords(rows)))
              /\ ymin' = LowerBound(ymin, SetMin(YCoords(rows)))
              /\ ymax' = UpperBound(ymax, SetMax(YCoords(rows)))
         ELSE UNCHANGED <<xmin, xmax, ymin, ymax>>
      /\ IF run.outcome = OK
         THEN /\ sources' = Put(sources, label,
                                [rows |-> rows, cols |-> SourceColumns(form, kw)])
              /\ remove_columns' = Put(remove_columns, label, <<"f", "p">>)
              /\ validation' = [validation EXCEPT !["add_source"] = TRUE]
         ELSE UNCHANGED <<sources, remove_columns, validation>>
      /\ UNCHANGED <<api_key, widgets, views, custom_js, plot, columndatasources,
                     colorbar, legend, data_tables>>

--------------------------------------------------------------------------
\* Theto.add_widget

WidgetTypes == {"Slider", "Animation", "Bad"}

\* the widgets render_plot lays out: all but the animation button
WidgetList == (DOMAIN widgets) \ {"animation"}

\* lines 324-331: an Animation is a Slider with a start button, and a widget
\* without a name is named after its type
WidgetName(widget_type, widget_name) ==
  IF widget_name # "None" THEN widget_name
  ELSE IF widget_type = "Animation" THEN "Slider" ELSE widget_type

\* add_widget up to its first raise: the error (or OK) and whether the widget
\* had already been registered (lines 382-388) when it was raised
AddWidgetRun(source_label, widget_type, reference, custom, buttonOk) ==
  IF source_label \notin DOMAIN sources THEN [outcome |-> "KeyError", registered |-> FALSE]
  ELSE IF reference \notin sources[source_label].cols
    THEN [outcome |-> "ValueError", registered |-> FALSE]
  ELSE IF widget_type = "Bad" THEN [outcome |-> "KeyError", registered |-> FALSE]
  ELSE IF ~custom /\ ~IsNone(custom_js) THEN [outcome |-> "ValueError", registered |-> FALSE]
  ELSE IF ~custom /\ source_label \in DOMAIN views
    THEN [outcome |-> "ValueError", registered |-> FALSE]
  ELSE IF widget_type = "Animation" /\ ~buttonOk
    THEN [outcome |-> "AttributeError", registered |-> TRUE]
  ELSE [outcome |-> OK, registered |-> TRUE]

\* the arguments of one call of add_widget, the source label aside; buttonOk
\* says whether the animation keywords are ones a Button accepts
WidgetCall(widget_type, reference, widget_name, custom, buttonOk) ==
  [widget_type |-> widget_type, reference |-> reference, widget_name |-> widget_name,
   custom |-> custom, buttonOk |-> buttonOk]

AddWidget(tried) ==
  IF ValidateWorkflow(validation, "add_widget") # Pass
  THEN RaiseWorkflow("add_widget")
  ELSE
    \E source_label \in (DOMAIN sources) \cup {UnknownLabel} :
    \E args \in Given(source_label \in DOMAIN sources, tried) :
      LET widget_type == args.widget_type
          reference == args.reference
          widget_name == args.widget_name
          custom == args.custom
          buttonOk == args.buttonOk
          run == AddWidgetRun(source_label, widget_type, reference, custom, buttonOk)
          name == WidgetName(widget_type, widget_name)
          filter == IF custom THEN "custom_js" ELSE name
          widget == [type |-> "Slider", filter |-> filter,
                     source |-> source_label, cds |-> None]
          button == [type |-> "Button", filter |-> "None",
                     source |-> "None", cds |-> None]
          named == Put(widgets, name, widget)
      IN
      /\ last' = Call("add_widget", run.outcome, Pass)
      /\ IF run.registered
         THEN /\ custom_js' = IF ~custom THEN custom_js
                              ELSE IF IsNone(custom_js) THEN Some({name})
                              ELSE Some(Val(custom_js) \cup {name})
              /\ widgets' = IF run.outcome = OK /\ widget_type = "Animation"
                            THEN Put(named, "animation", button) ELSE named
         ELSE UNCHANGED <<custom_js, widgets>>
      /\ IF run.outcome = OK
         THEN /\ views' = IF source_label \notin DOMAIN views
                          THEN Put(views, source_label, [filter |-> filter, cds |-> None])
                          ELSE views
              /\ validation' = [validation EXCEPT !["add_widget"] = TRUE]
         ELSE UNCHANGED <<views, validation>>
      /\ UNCHANGED <<api_key, sources, remove_columns, xmin, xmax, ymin, ymax, plot,
                     columndatasources, colorbar, legend, data_tables>>

--------------------------------------------------------------------------
\* Theto.prepare_plot

MapTypes == {"carto_light", "roadmap", "bad"}

GoogleMapTypes == {"satellite", "roadmap", "terrain", "hybrid"}

\* the columns add_source computes that a ColumnDataSource leaves out
OmitColumns == {"index", "x_coords", "y_coords", "x_coords_transform",
                "y_coords_transform", "x_coord_point_transform",
                "y_coord_point_transform"}

\* how many plots the session has built so far
Generation == IF IsNone(plot) THEN 0 ELSE Val(plot).gen

\* _create_columndatasource: the ColumnDataSource built for a source by the
\* gen-th prepare_plot
CreateColumnDataSource(source_df, gen) ==
  [gen |-> gen, cols |-> (source_df.cols \ OmitColumns) \cup {"xsf", "ysf", "xsp", "ysp"}]

\* lines 551-557: the filter and callbacks of every widget of a registered
\* source are given the new ColumnDataSource
RebindWidgets(gen) ==
  IF DOMAIN widgets = {} THEN EmptyDict
  ELSE [w \in DOMAIN widgets |->
          IF widgets[w].source \in DOMAIN sources
          THEN [widgets[w] EXCEPT !.cds = Some(gen)] ELSE widgets[w]]

\* lines 559-560: so is the view of every registered source
RebindViews(gen) ==
  IF DOMAIN views = {} THEN EmptyDict
  ELSE [l \in DOMAIN views |->
          IF l \in DOMAIN sources
          THEN [views[l] EXCEPT !.cds = Some(gen)] ELSE views[l]]

\* gmaps_utils.lat_rad: the error it raises on a latitude, or OK
LatRad(lat) ==
  IF lat = 90 THEN "ZeroDivisionError" ELSE IF lat = -90 THEN "ValueError" ELSE OK

\* prepare_plot up to its first raise; none of them follows a change of state
PreparePlotRun(map_type) ==
  IF LatRad(Val(ymax)) # OK THEN LatRad(Val(ymax))
  ELSE IF LatRad(Val(ymin)) # OK THEN LatRad(Val(ymin))
  ELSE IF map_type \in GoogleMapTypes /\ IsNone(api_key) THEN "ValueError"
  ELSE IF map_type = "bad" THEN "ValueError"
  ELSE OK

PreparePlot ==
  IF ValidateWorkflow(validation, "prepare_plot") # Pass
  THEN RaiseWorkflow("prepare_plot")
  ELSE
    \E map_type \in MapTypes :
      LET outcome == PreparePlotRun(map_type)
          gen == Generation + 1
      IN
      IF outcome # OK THEN Raise("prepare_plot", outcome)
      ELSE
        /\ last' = Call("prepare_plot", OK, Pass)
        /\ plot' = Some([outer |-> IF map_type \in GoogleMapTypes THEN "GMapPlot" ELSE "Plot",
                         gen |-> gen, glyphs |-> <<>>, legend_placed |-> FALSE])
        /\ columndatasources' =
             [l \in (DOMAIN columndatasources) \cup (DOMAIN sources) |->
                IF l \in DOMAIN sources THEN CreateColumnDataSource(sources[l], gen)
                ELSE columndatasources[l]]
        /\ widgets' = RebindWidgets(gen)
        /\ views' = RebindViews(gen)
        /\ validation' = [validation EXCEPT !["prepare_plot"] = TRUE]
        /\ UNCHANGED <<api_key, sources, remove_columns, xmin, xmax, ymin, ymax,
                       custom_js, colorbar, legend, data_tables>>

--------------------------------------------------------------------------
\* Theto.add_layer

BokehModels == {"MultiPolygons", "Circle", "Bad"}

\* the colour given to a layer: a colour name, the numeric column 'order'
\* (recoloured as a gradient), that column with start_hex=None, or the name
\* of a column the source does not have
ColorForms == {"literal", "order", "order_no_hex", "missing"}

ClickForms == {"none", "bad"}

ColorColumn(color) == IF color = "missing" THEN "missing" ELSE "order"

\* the type of self.plot is a figure, not the Row or Column render_plot wraps
\* it in
IsFigure(p) == p.outer \in {"Plot", "GMapPlot"}

Without(seq, x) == SelectSeq(seq, LAMBDA e : e # x)

\* add_layer up to its first raise: the error (or OK) and how far the session
\* had been changed when it was raised:
\*   "none"; "colorbar" (line 620); "fields" (line 625 as well);
\*   "glyph" (everything but the add_layer flag)
AddLayerRun(source_label, bokeh_model, color, hover, click) ==
  IF IsNone(plot) THEN [outcome |-> "AssertionError", reached |-> "none"]
  ELSE IF bokeh_model = "Bad" THEN [outcome |-> "ValueError", reached |-> "none"]
  ELSE IF source_label \notin DOMAIN sources THEN [outcome |-> "KeyError", reached |-> "none"]
  ELSE IF ~IsFigure(Val(plot)) THEN [outcome |-> "AttributeError", reached |-> "none"]
  ELSE IF color # "literal" /\ ColorColumn(color) \notin sources[source_label].cols
    THEN [outcome |-> "KeyError", reached |-> "none"]
  ELSE IF color = "order_no_hex" THEN [outcome |-> "ValueError", reached |-> "none"]
  ELSE IF source_label \notin DOMAIN columndatasources
    THEN [outcome |-> "KeyError", reached |-> "colorbar"]
  ELSE IF bokeh_model = "MultiPolygons" /\ Val(plot).outer = "GMapPlot"
    THEN [outcome |-> "ValueError", reached |-> "fields"]
  ELSE IF bokeh_model # "MultiPolygons" /\ hover
    THEN [outcome |-> "ValueError", reached |-> "fields"]
  ELSE IF click = "bad" THEN [outcome |-> "NotImplementedError", reached |-> "glyph"]
  ELSE [outcome |-> OK, reached |-> "glyph"]

\* the arguments of one call of add_layer, the source label aside: hover says
\* whether hover_ keywords are given, with_legend whether legend is
LayerCall(bokeh_model, color, hover, with_legend, click) ==
  [bokeh_model |-> bokeh_model, color |-> color, hover |-> hover,
   with_legend |-> with_legend, click |-> click]

AddLayer(tried) ==
  IF ValidateWorkflow(validation, "add_layer") # Pass
  THEN RaiseWorkflow("add_layer")
  ELSE
    \E source_label \in (DOMAIN sources) \cup {UnknownLabel} :
    \E args \in Given(source_label \in DOMAIN sources, tried) :
      LET bokeh_model == args.bokeh_model
          color == args.color
          hover == args.hover
          with_legend == args.with_legend
          click == args.click
          run == AddLayerRun(source_label, bokeh_model, color, hover, click)
          suffix == IF bokeh_model = "MultiPolygons" THEN "f" ELSE "p"
          glyph == [kind |-> "layer", label |-> source_label]
      IN
      /\ last' = Call("add_layer", run.outcome, Pass)
      /\ colorbar' = IF run.reached # "none" /\ IsNone(colorbar) /\ color = "order"
                     THEN Some("colorbar") ELSE colorbar
      /\ columndatasources' =
           IF run.reached \in {"fields", "glyph"} /\ color = "order"
           THEN [columndatasources EXCEPT ![source_label].cols = @ \cup {"order_autocolor"}]
           ELSE columndatasources
      /\ IF run.reached = "glyph"
         THEN /\ remove_columns' =
                   [remove_columns EXCEPT ![source_label] = Without(@, suffix)]
              /\ plot' = Some([Val(plot) EXCEPT !.glyphs = Append(@, glyph)])
              /\ legend' = IF with_legend THEN legend + 1 ELSE legend
         ELSE UNCHANGED <<remove_columns, plot, legend>>
      /\ validation' = IF run.outcome = OK
                       THEN [validation EXCEPT !["add_layer"] = TRUE] ELSE validation
      /\ UNCHANGED <<api_key, sources, xmin, xmax, ymin, ymax, widgets, views,
                     custom_js, data_tables>>

--------------------------------------------------------------------------
\* Theto.add_path

\* add_path up to its first raise; none of them follows a change of state
AddPathRun(source_label, links, edge_type) ==
  IF source_label \notin DOMAIN sources THEN "KeyError"
  ELSE IF links \notin sources[source_label].cols THEN "KeyError"
  ELSE IF links # "order" THEN "ValueError"
  ELSE IF edge_type \notin {"curved", "straight"} THEN "ValueError"
  ELSE IF ~IsFigure(Val(plot)) THEN "AttributeError"
  ELSE OK

AddPath ==
  IF ValidateWorkflow(validation, "add_path") # Pass
  THEN RaiseWorkflow("add_path")
  ELSE
    \E source_label \in (DOMAIN sources) \cup {UnknownLabel} :
    \E links \in Given(source_label \in DOMAIN sources, {"order", "raw_data", "missing"}) :
    \E edge_type \in Given(links = "order", {"curved", "bad"}) :
    \E with_legend \in Given(edge_type = "curved", BOOLEAN) :
      LET outcome == AddPathRun(source_label, links, edge_type)
          glyph == [kind |-> "path", label |-> source_label]
      IN
      IF outcome # OK THEN Raise("add_path", outcome)
      ELSE
        /\ last' = Call("add_path", OK, Pass)
        /\ plot' = Some([Val(plot) EXCEPT !.glyphs = Append(@, glyph)])
        /\ legend' = IF with_legend THEN legend + 1 ELSE legend
        /\ UNCHANGED <<api_key, validation, sources, remove_columns, xmin, xmax, ymin,
                       ymax, widgets, views, custom_js, columndatasources, colorbar,
                       data_tables>>

--------------------------------------------------------------------------
\* Theto.add_data_table

\* add_data_table up to its first raise; none of them follows a change of state
AddDataTableRun(source_label, kwargsOk) ==
  IF source_label \notin DOMAIN columndatasources THEN "KeyError"
  ELSE IF ~kwargsOk THEN "AttributeError"
  ELSE OK

AddDataTable ==
  IF ValidateWorkflow(validation, "add_data_table") # Pass
  THEN RaiseWorkflow("add_data_table")
  ELSE
    \E source_label \in (DOMAIN sources) \cup {UnknownLabel}, kwargsOk \in BOOLEAN :
      LET outcome == AddDataTableRun(source_label, kwargsOk) IN
      IF outcome # OK THEN Raise("add_data_table", outcome)
      ELSE
        /\ last' = Call("add_data_table", OK, Pass)
        /\ data_tables' = Append(data_tables,
                                 [label |-> source_label,
                                  gen |-> columndatasources[source_label].gen])
        /\ UNCHANGED <<api_key, validation, sources, remove_columns, xmin, xmax, ymin,
                       ymax, widgets, views, custom_js, plot, columndatasources,
                       colorbar, legend>>

--------------------------------------------------------------------------
\* Theto.render_plot

DisplayTypes == {"object", "notebook", "file"}

\* every order in which a dict with these keys can be iterated
Orders(keys) ==
  {o \in [1..Cardinality(keys) -> keys] : \A i, j \in 1..Cardinality(keys) : o[i] = o[j] => i = j}

\* lines 899-902 for one source: pop 'xs' + suffix and 'ys' + suffix for every
\* suffix still listed; popping a column that is gone raises KeyError
RECURSIVE PopSuffixes(_, _, _)
PopSuffixes(cols, suffixes, i) ==
  IF i > Len(suffixes) THEN [cols |-> cols, outcome |-> OK]
  ELSE IF ("xs" \o suffixes[i]) \notin cols THEN [cols |-> cols, outcome |-> "KeyError"]
  ELSE IF ("ys" \o suffixes[i]) \notin cols
    THEN [cols |-> cols \ {"xs" \o suffixes[i]}, outcome |-> "KeyError"]
  ELSE PopSuffixes(cols \ {"xs" \o suffixes[i], "ys" \o suffixes[i]}, suffixes, i + 1)

\* lines 899-902: the loop over the column data sources, in dict order
RECURSIVE PopColumns(_, _, _)
PopColumns(cds, order, i) ==
  IF i > Len(order) THEN [cds |-> cds, outcome |-> OK]
  ELSE LET k == order[i]
           popped == PopSuffixes(cds[k].cols, remove_columns[k], 1)
           next == [cds EXCEPT ![k].cols = popped.cols]
       IN IF popped.outcome # OK THEN [cds |-> next, outcome |-> popped.outcome]
          ELSE PopColumns(next, order, i + 1)

\* render_plot after the column loop, up to its first raise: the error (or OK)
\* and how far the session had been changed when it was raised:
\*   "pops" (the column loop only); "widgets" (legend laid out, colour bar
\*   wrapped, animation button popped as well); "flag" (everything)
RenderPlotRun(display_type, widget_position, ioOk) ==
  IF ~IsFigure(Val(plot)) THEN [outcome |-> "AttributeError", reached |-> "pops"]
  ELSE IF DOMAIN widgets # {} /\ "animation" \in DOMAIN widgets /\ WidgetList = {}
    THEN [outcome |-> "IndexError", reached |-> "widgets"]
  ELSE IF DOMAIN widgets # {} /\ "animation" \in DOMAIN widgets /\ Cardinality(WidgetList) > 1
    THEN [outcome |-> "NotImplementedError", reached |-> "widgets"]
  ELSE IF DOMAIN widgets # {} /\ widget_position \notin {"left", "right", "above", "below"}
    THEN [outcome |-> "ValueError", reached |-> "widgets"]
  ELSE IF display_type # "object" /\ ~ioOk THEN [outcome |-> "IOError", reached |-> "flag"]
  ELSE [outcome |-> OK, reached |-> "flag"]

\* the type of self.plot once render_plot has wrapped the figure
Wrapped(p, upto) ==
  IF upto = "flag" /\ Len(data_tables) > 0 THEN "Column"
  ELSE IF upto = "flag" /\ DOMAIN widgets # {} THEN "Row"
  ELSE IF ~IsNone(colorbar) THEN "Row"
  ELSE p.outer

RenderPlot ==
  IF ValidateWorkflow(validation, "render_plot") # Pass
  THEN RaiseWorkflow("render_plot")
  ELSE
    \E display_type \in DisplayTypes, widget_position \in {"left", "bad"},
       order \in Orders(DOMAIN columndatasources) :
    \E ioOk \in (IF display_type = "object" THEN {TRUE} ELSE BOOLEAN) :
      LET popped == PopColumns(columndatasources, order, 1)
          run == IF popped.outcome # OK
                 THEN [outcome |-> popped.outcome, reached |-> "pops"]
                 ELSE RenderPlotRun(display_type, widget_position, ioOk)
      IN
      /\ last' = Call("render_plot", run.outcome, Pass)
      /\ columndatasources' = popped.cds
      /\ IF run.reached \in {"widgets", "flag"}
         THEN /\ plot' = Some([Val(plot) EXCEPT
                                 !.legend_placed = @ \/ legend > 0,
                                 !.outer = Wrapped(Val(plot), run.reached)])
              /\ widgets' = IF DOMAIN widgets # {} /\ "animation" \in DOMAIN widgets
                            THEN Drop(widgets, "animation") ELSE widgets
         ELSE UNCHANGED <<plot, widgets>>
      /\ validation' = IF run.reached = "flag"
                       THEN [validation EXCEPT !["render_plot"] = TRUE] ELSE validation
      /\ UNCHANGED <<api_key, sources, remove_columns, xmin, xmax, ymin, ymax, views,
                     custom_js, colorbar, legend, data_tables>>

--------------------------------------------------------------------------
\* Sessions

\* the records the workflow specification feeds add_source
WorkflowRecords == {Rec("shape", 0, 1), Rec("badstr", 0, 0)}

\* the labels the workflow specification registers sources under
WorkflowLabels == {"a"}

\* the calls of add_widget the workflow specification tries: a widget with its
\* own filter, one with the shared custom_js filter, an animation, an
\* animation whose button cannot be built, an unknown widget type, and a
\* reference to a column the source does not have
WorkflowWidgets ==
  { WidgetCall("Slider", "order", "None", FALSE, TRUE),
    WidgetCall("Slider", "order", "w1", TRUE, TRUE),
    WidgetCall("Animation", "order", "None", FALSE, TRUE),
    WidgetCall("Animation", "order", "w1", TRUE, FALSE),
    WidgetCall("Bad", "order", "None", FALSE, TRUE),
    WidgetCall("Slider", "missing", "None", FALSE, TRUE) }

\* the calls of add_layer the workflow specification tries: polygons with a
\* legend entry, markers coloured by a column, and one call for each raise
WorkflowLayers ==
  { LayerCall("MultiPolygons", "literal", FALSE, TRUE, "none"),
    LayerCall("Circle", "order", FALSE, FALSE, "none"),
    LayerCall("Bad", "literal", FALSE, FALSE, "none"),
    LayerCall("MultiPolygons", "missing", FALSE, FALSE, "none"),
    LayerCall("MultiPolygons", "order_no_hex", FALSE, FALSE, "none"),
    LayerCall("Circle", "order", TRUE, FALSE, "none"),
    LayerCall("MultiPolygons", "literal", FALSE, FALSE, "bad") }

\* Theto.__init__, with or without a Google Maps key
NewSession ==
  /\ api_key \in {None, Some("key")}
  /\ validation = NoFlags
  /\ sources = EmptyDict
  /\ remove_columns = EmptyDict
  /\ xmin = None /\ xmax = None /\ ymin = None /\ ymax = None
  /\ widgets = EmptyDict
  /\ views = EmptyDict
  /\ custom_js = None
  /\ plot = None
  /\ columndatasources = EmptyDict
  /\ colorbar = None
  /\ legend = 0
  /\ data_tables = <<>>
  /\ last = [stage |-> "__init__", outcome |-> OK, msg |-> Pass, pre |-> NoFlags,
             norm |-> Pass, bad |-> 0]
  /\ done = <<>>
  /\ calls = 0

\* a session; input and result are used where one function of the utility
\* modules is applied on its own
Init == NewSession /\ input = None /\ result = None

\* the model follows a session for n calls that change it; the calls
\* that raise and leave it as it was are not counted
Count(n) ==
  /\ done' = IF last'.outcome = OK /\ last'.stage \notin Done
             THEN Append(done, last'.stage) ELSE done
  /\ calls' = IF session' = session THEN calls ELSE calls + 1
  /\ calls' <= n
  /\ UNCHANGED <<input, result>>

Next ==
  \/ AddSource(WorkflowRecords, MaxBatch, WorkflowLabels) /\ Count(MaxCalls)
  \/ AddWidget(WorkflowWidgets) /\ Count(MaxCalls)
  \/ PreparePlot /\ Count(MaxCalls)
  \/ AddLayer(WorkflowLayers) /\ Count(MaxCalls)
  \/ AddPath /\ Count(MaxCalls)
  \/ AddDataTable /\ Count(MaxCalls)
  \/ RenderPlot /\ Count(MaxCalls)

Spec == Init /\ [][Next]_vars

\* the records the sources specification feeds add_source: a geometry object,
\* a pair in range, a pair whose longitude is out of range, a string that is
\* neither a geohash nor well-known text, well-known text that does not parse,
\* and a value of no known kind
SourceRecords ==
  { Rec("shape", 0, 1), Rec("pair", 2, 3), Rec("pair", 200, 0),
    Rec("badstr", 0, 0), Rec("badwkt", 0, 0), Rec("other", 0, 0) }

SourceLabels == {"a"}

\* sessions that only register sources
SourceNext == AddSource(SourceRecords, MaxSourceBatch, SourceLabels) /\ Count(MaxSourceCalls)

SourceSpec == Init /\ [][SourceNext]_vars

--------------------------------------------------------------------------
\* The input router applied on its own to one value

Longitudes == {-181, -180, -179, -91, -90, -89, 0, 89, 90, 91, 179, 180, 181}

Latitudes == {-91, -90, -89, 0, 89, 90, 91}

\* the tuples and lists given to the router: every pair of the grid, a
\* 1-tuple and a 3-tuple
TupleValues ==
  {Rec("pair", x, y) : x \in Longitudes, y \in Latitudes}
    \cup {Rec("single", 0, 0), Rec("triple", 0, 0)}

\* the words a well-known text may start with: the types of the reader, and
\* the first entry of VALID_WKT_TYPES
WktWords == WktReaderTypes \cup {<<"G", "E", "O", "M", "E", "T", "R", "Y">>}

\* well-known text: a word, then coordinate text that is well formed or not
WktValues == {Str(Append(w, b)) : w \in WktWords, b \in {"(..)", "("}}

RouterValues == TupleValues \cup WktValues

RouterInit ==
  /\ NewSession /\ api_key = None
  /\ input \in RouterValues
  /\ result = None

\* process_input_value(value)
Route ==
  /\ result' = Some(ProcessInputValue(input))
  /\ UNCHANGED <<session, last, done, calls, input>>

RouterNext == Route

RouterSpec == RouterInit /\ [][RouterNext]_vars

--------------------------------------------------------------------------
\* The normalization step of add_source applied on its own to one batch

MaxTextBatch == 2

\* strings of the geohash alphabet (two of them JSON numbers, one the JSON
\* literal true), JSON objects with and without a geometry, well-known text,
\* a string that is nothing, and a shapely object
TextRecords ==
  {Str(<<"1", "2">>), Str(<<"7">>), Str(<<"d", "r">>), Str(<<"0", "7">>),
   Str(<<"t", "r", "u", "e">>),
   Str(<<"{", "geometry", "}">>), Str(<<"{", "coordinates", "}">>),
   Str(<<"{", "name", "}">>),
   Str(<<"P", "O", "I", "N", "T", "(..)">>), Str(<<"?">>),
   Rec("shape", 0, 1)}

BatchInit ==
  /\ NewSession /\ api_key = None
  /\ input \in Batches(TextRecords, MaxTextBatch)
  /\ result = None

\* add_source, lines 255-258: the path taken, the records normalized before
\* the first failure or the end of the batch, and the outcome
Normalize ==
  /\ result' = Some([path |-> IF AllGeojson(input) THEN "import_geojson"
                              ELSE "process_input_value",
                     outcome |-> NormalizeBatch(input),
                     bad |-> FailingRecord(input)])
  /\ UNCHANGED <<session, last, done, calls, input>>

BatchNext == Normalize

BatchSpec == BatchInit /\ [][BatchNext]_vars

--------------------------------------------------------------------------
\* The geohash decoder applied on its own to one code

MaxCode == 2

\* characters of BASE32, and three that are not in it
CodeChars == {"0", "7", "d", "r", "z", "a", "i", "D"}

\* n times the character c
Repeat(c, n) == [j \in 1..n |-> c]

\* every code of at most MaxCode characters, and codes of 12 and 13 characters
Codes ==
  UNION {[1..k -> CodeChars] : k \in 0..MaxCode}
    \cup {Repeat(c, n) : c \in CodeChars, n \in {12, 13}}
    \cup {Repeat("d", 12) \o <<c>> : c \in CodeChars}

GeohashInit ==
  /\ NewSession /\ api_key = None
  /\ input \in Codes
  /\ result = None

\* geohash_to_centroid(geohash) and geohash_to_shape(geohash)
Decode ==
  /\ result' = Some([centroid |-> GeohashToCentroid(input),
                     shape |-> GeohashToShape(input)])
  /\ UNCHANGED <<session, last, done, calls, input>>

GeohashNext == Decode

GeohashSpec == GeohashInit /\ [][GeohashNext]_vars

--------------------------------------------------------------------------
\* shape_to_nested_list applied on its own to one geometry.  A geometry is
\* [type, rings, parts]: the name geometryType() returns; for a single-part
\* geometry the rings of the polygon the code flattens (the polygon itself,
\* the buffer of a line or the envelope of the buffer of a point), exterior
\* first, each ring a number that stands for its coordinates; for a
\* multi-part geometry or a collection its members in order.

Single(type, rings) == [type |-> type, rings |-> rings, parts |-> <<>>]

Multi(type, parts) == [type |-> type, rings |-> <<>>, parts |-> parts]

\* polygon_to_nested_list: the x lists and the y lists of the rings, the
\* exterior first
PolygonToNestedList(rings) ==
  [x |-> [i \in 1..Len(rings) |-> <<"x", rings[i]>>],
   y |-> [i \in 1..Len(rings) |-> <<"y", rings[i]>>]]

\* shape_to_nested_list: [outcome, xs, ys].  With no member, the unpacking of
\* the empty zip raises ValueError.
RECURSIVE ShapeToNestedList(_)
ShapeToNestedList(shp) ==
  IF shp.type \in {"LineString", "LinearRing", "Point", "Polygon"}
  THEN [outcome |-> OK,
        xs |-> <<PolygonToNestedList(shp.rings).x>>,
        ys |-> <<PolygonToNestedList(shp.rings).y>>]
  ELSE IF shp.type \in {"MultiPoint", "MultiLineString", "MultiPolygon",
                        "GeometryCollection"}
  THEN LET members == [i \in 1..Len(shp.parts) |->
                         ShapeToNestedList(shp.parts[i])]
           outcomes == [i \in 1..Len(members) |-> members[i].outcome]
       IN  IF FirstError(outcomes, 1) # OK
           THEN [outcome |-> FirstError(outcomes, 1), xs |-> <<>>, ys |-> <<>>]
           ELSE IF Len(members) = 0
           THEN [outcome |-> "ValueError", xs |-> <<>>, ys |-> <<>>]
           ELSE [outcome |-> OK,
                 xs |-> [i \in 1..Len(members) |-> members[i].xs[1]],
                 ys |-> [i \in 1..Len(members) |-> members[i].ys[1]]]
  ELSE [outcome |-> "NotImplementedError", xs |-> <<>>, ys |-> <<>>]

MaxParts == 2

\* a triangle, a polygon with one hole, a point, a line and a closed ring
\* (whose buffer has a hole)
SingleShapes ==
  {Single("Polygon", <<1>>), Single("Polygon", <<2, 3>>),
   Single("Point", <<4>>), Single("LineString", <<5>>),
   Single("LinearRing", <<6, 7>>)}

Polygons == {g \in SingleShapes : g.type = "Polygon"}

\* the sequences of at most n members of the pool
Members(pool, n) == UNION {[1..k -> pool] : k \in 0..n}

MultiShapes ==
  {Multi("MultiPolygon", parts) : parts \in Members(Polygons, MaxParts)}
    \cup {Multi("MultiPoint", <<Single("Point", <<4>>), Single("Point", <<8>>)>>),
          Multi("MultiLineString", <<Single("LineString", <<5>>)>>)}

Collections ==
  {Multi("GeometryCollection", parts) :
     parts \in Members(SingleShapes \cup MultiShapes, MaxParts)}

Shapes == SingleShapes \cup MultiShapes \cup Collections

FlattenInit ==
  /\ NewSession /\ api_key = None
  /\ input \in Shapes
  /\ result = None

\* shape_to_nested_list(shp)
NestedList ==
  /\ result' = Some(ShapeToNestedList(input))
  /\ UNCHANGED <<session, last, done, calls, input>>

FlattenNext == NestedList

FlattenSpec == FlattenInit /\ [][FlattenNext]_vars

--------------------------------------------------------------------------
\* color_gradient of color_utils.py applied on its own.  A hex colour is
\* [rgb, upper]: its three channels, and whether its letters are capitals.
\* A float is the fraction num / den of two integers; den = 0 is nan.

Hex(rgb, upper) == [rgb |-> rgb, upper |-> upper]

\* hex_to_rgb
HexToRgb(hexcode) == hexcode.rgb

\* minmax_scale(x, out_range=(0, 1)) for the value v of an array whose least
\* and greatest values are lo and hi: (v - (hi + lo) / 2) / (hi - lo) + 1 / 2
MinmaxScale(v, lo, hi) == [num |-> v - lo, den |-> hi - lo]

\* from + t * (to - from), for one channel.  The doubles of the code hold the
\* result exactly at both ends of the scale and when the two channels are
\* equal; elsewhere the result may lie a rounding error off.
Interpolate(from, to, t) ==
  [num |-> from * t.den + t.num * (to - from),
   den |-> t.den,
   exact |-> t.num = 0 \/ t.num = t.den \/ from = to]

\* int(x) in rgb_to_hex.  A result that is a whole number up to a rounding
\* error is truncated to that number, or to the one below when the error
\* falls below it (down).
IntOf(x, down) ==
  IF x.num % x.den = 0 /\ ~x.exact /\ down
  THEN (x.num \div x.den) - 1
  ELSE x.num \div x.den

\* rgb_to_hex: the colour, written in small letters
RgbToHex(rgb, down) ==
  Hex(<<IntOf(rgb[1], down), IntOf(rgb[2], down), IntOf(rgb[3], down)>>, FALSE)

\* the colour of a value on the negative side, running from the mid colour
NegativeColorFromMid(s, m, t) == [j \in 1..3 |-> Interpolate(m[j], s[j], t)]

\* lines 95-98: s[j] + sarr_neg * (m[j] - s[j])
NegativeColor(s, m, t) == [j \in 1..3 |-> Interpolate(s[j], m[j], t)]

\* lines 91-94: m[j] + sarr_pos * (f[j] - m[j])
PositiveColor(m, f, t) == [j \in 1..3 |-> Interpolate(m[j], f[j], t)]

\* color_gradient with trans=None: [outcome, colors].  min() of no value
\* raises ValueError, and so does int() of the nan that scaling an array of
\* equal values gives.  low is the set of values whose rounding errors fall
\* below: the arithmetic is the same for equal values.
ColorGradient(vals, start_hex, end_hex, mid_hex, low) ==
  LET Failed == [outcome |-> "ValueError", colors |-> <<>>]
      all == {vals[i] : i \in 1..Len(vals)}
      s == HexToRgb(start_hex)
      f == HexToRgb(end_hex)
      m == HexToRgb(mid_hex)
  IN  IF Len(vals) = 0 THEN Failed
      ELSE IF ~(SetMin(all) < 0 /\ SetMax(all) > 0)
      THEN IF SetMin(all) = SetMax(all) THEN Failed
           ELSE [outcome |-> OK,
                 colors |-> [i \in 1..Len(vals) |->
                   RgbToHex(PositiveColor(s, f,
                              MinmaxScale(vals[i], SetMin(all), SetMax(all))),
                            vals[i] \in low)]]
      ELSE LET neg == {v \in all : v <= 0}
               pos == {v \in all : v >= 0}
           IN  IF SetMin(neg) = SetMax(neg) \/ SetMin(pos) = SetMax(pos)
               THEN Failed
               ELSE [outcome |-> OK,
                     colors |-> [i \in 1..Len(vals) |->
                       IF vals[i] <= 0
                       THEN RgbToHex(NegativeColor(s, m,
                              MinmaxScale(vals[i], SetMin(neg), SetMax(neg))),
                              vals[i] \in low)
                       ELSE RgbToHex(PositiveColor(m, f,
                              MinmaxScale(vals[i], SetMin(pos), SetMax(pos))),
                              vals[i] \in low)]]

MaxVals == 4

Values == {-3, -1, 0, 1, 2}

StartColors == {Hex(<<200, 0, 16>>, FALSE), Hex(<<255, 0, 0>>, TRUE)}

EndColors == {Hex(<<0, 0, 255>>, FALSE), Hex(<<0, 100, 16>>, TRUE)}

MidColors == {Hex(<<255, 255, 255>>, FALSE), Hex(<<100, 40, 16>>, TRUE)}

GradientInit ==
  /\ NewSession /\ api_key = None
  /\ input \in [vals : Batches(Values, MaxVals), start_hex : StartColors,
                end_hex : EndColors, mid_hex : MidColors]
  /\ result = None

\* color_gradient(vals, start_hex, end_hex, mid_hex)
Gradient ==
  /\ \E low \in SUBSET {input.vals[i] : i \in 1..Len(input.vals)} :
       result' = Some(ColorGradient(input.vals, input.start_hex,
                                    input.end_hex, input.mid_hex, low))
  /\ UNCHANGED <<session, last, done, calls, input>>

GradientNext == Gradient

GradientSpec == GradientInit /\ [][GradientNext]_vars

--------------------------------------------------------------------------
\* order_records of color_utils.py applied on its own.  Records are numbered
\* from 1 in the model and from 0 in the code; a score is the number of the
\* code.

\* the index of the first greatest element, as numpy.argmax
ArgMaxLast(dists) ==
  CHOOSE i \in 1..Len(dists) :
    \A j \in 1..Len(dists) :
      dists[j] <= dists[i] /\ (j > i => dists[j] < dists[i])

ArgMax(dists) ==
  CHOOSE i \in 1..Len(dists) :
    \A j \in 1..Len(dists) :
      dists[j] <= dists[i] /\ (j < i => dists[j] < dists[i])

\* line 115 without the square root, which keeps the order and the ties of
\* distances between points of whole coordinates; line 116 puts -1 for the
\* records visited
Dists(a, current_ind, inds) ==
  [j \in 1..Len(a) |->
     IF j \in inds
     THEN (a[current_ind][1] - a[j][1]) * (a[current_ind][1] - a[j][1])
          + (a[current_ind][2] - a[j][2]) * (a[current_ind][2] - a[j][2])
     ELSE -1]

\* the while loop of order_records: ind_order at its end.  inds is the set of
\* records still marked True.
RECURSIVE OrderLoop(_, _, _, _)
OrderLoop(a, inds, current_ind, ind_order) ==
  IF inds = {} THEN ind_order
  ELSE OrderLoop(a, inds \ {current_ind},
                 ArgMax(Dists(a, current_ind, inds \ {current_ind})),
                 Append(ind_order, current_ind))

\* order_records: [outcome, score, selections].  zip stops at the shorter
\* list; with fewer y than x coordinates the array has fewer rows than inds
\* has entries and indexing raises IndexError.
OrderRecords(x_coords, y_coords) ==
  LET n_records == Len(x_coords)
      a == [i \in 1..n_records |-> <<x_coords[i], y_coords[i]>>]
  IN  IF Len(y_coords) < n_records
      THEN [outcome |-> "IndexError", score |-> <<>>, selections |-> 0]
      ELSE IF n_records = 0
      THEN [outcome |-> OK, score |-> <<>>, selections |-> 0]
      ELSE LET ind_order == OrderLoop(a, 1..n_records, 1, <<>>)
           IN  [outcome |-> OK,
                score |-> [i \in 1..n_records |->
                             (CHOOSE k \in 1..Len(ind_order) :
                                ind_order[k] = i) - 1],
                selections |-> Len(ind_order)]

MaxRecords == 3

XValues == {0, 1, 2}

YValues == {0, 2}

\* two lists of the same length
OrderInit ==
  /\ NewSession /\ api_key = None
  /\ \E n \in 0..MaxRecords :
       input \in [x_coords : [1..n -> XValues], y_coords : [1..n -> YValues]]
  /\ result = None

\* order_records(x_coords, y_coords)
Order ==
  /\ result' = Some(OrderRecords(input.x_coords, input.y_coords))
  /\ UNCHANGED <<session, last, done, calls, input>>

OrderNext == Order

OrderSpec == OrderInit /\ [][OrderNext]_vars

--------------------------------------------------------------------------
\* Categorical colours: assign_colors of color_utils.py and the categorical
\* branch of prepare_properties of bokeh_utils.py, each applied on its own.
\* A categorical value is a string that is no colour; Python orders strings
\* as Alphabet does.

Alphabet == <<"a", "b", "c">>

Rank(v) == CHOOSE k \in 1..Len(Alphabet) : Alphabet[k] = v

\* set(color_arr)
ValueSet(color_arr) == {color_arr[i] : i \in 1..Len(color_arr)}

\* the orders in which the elements of a set can be listed
Orderings(S) ==
  {o \in [1..Cardinality(S) -> S] : \A v \in S : \E k \in DOMAIN o : o[k] = v}

\* the values in ascending order
Ascending(S) ==
  CHOOSE o \in Orderings(S) :
    \A j, k \in DOMAIN o : j < k => Rank(o[j]) < Rank(o[k])

\* sorted(val_count_dict.items(), reverse=True): the (value, count) pairs
\* compared as tuples, which puts the values in descending order
SortedItemsReverse(color_arr) ==
  CHOOSE o \in Orderings(ValueSet(color_arr)) :
    \A j, k \in DOMAIN o : j < k => Rank(o[j]) > Rank(o[k])

\* every value in the first place
PlaceFirst(o, v) == 1

\* the place of v in the sequence o
PlaceIn(o, v) == CHOOSE k \in DOMAIN o : o[k] = v

\* assign_colors for a list of categorical values: [outcome, colors,
\* color_dict].  value_order is the order in which Python lists value_set.
\* With more values than colours and no colour at all, categorical_palette[0]
\* raises IndexError.
AssignColors(color_arr, categorical_palette, value_order) ==
  LET value_set == ValueSet(color_arr)
      n_colors == Cardinality(value_set)
      palette_length == Len(categorical_palette)
      ranked == SortedItemsReverse(color_arr)
      color_dict ==
        IF n_colors <= palette_length
        THEN [v \in value_set |-> categorical_palette[PlaceIn(value_order, v)]]
        ELSE [v \in value_set |->
                categorical_palette[IF PlaceIn(ranked, v) < palette_length
                                    THEN PlaceIn(ranked, v)
                                    ELSE palette_length]]
  IN  IF n_colors > palette_length /\ palette_length = 0
      THEN [outcome |-> "IndexError", colors |-> <<>>, color_dict |-> <<>>,
            palette |-> categorical_palette]
      ELSE [outcome |-> OK,
            colors |-> [i \in 1..Len(color_arr) |-> color_dict[color_arr[i]]],
            color_dict |-> color_dict,
            palette |-> categorical_palette]

\* _v(0, 1, hue) * 255 truncated by int(), for the hue h / (6 * n): with
\* l = 0.5 and s = 1.0, hls_to_rgb has m1 = 0 and m2 = 1.  On the two slopes
\* and at their ends the double may lie a rounding error below a whole
\* number, which int() then truncates to the number below (down).
HueChannel(h, n, down) ==
  LET hue == h % (6 * n)
      exact == IF hue < n THEN [num |-> 255 * hue, den |-> n]
               ELSE IF hue < 3 * n THEN [num |-> 255, den |-> 1]
               ELSE IF hue < 4 * n THEN [num |-> 255 * (4 * n - hue), den |-> n]
               ELSE [num |-> 0, den |-> 1]
      sloped == (0 < hue /\ hue <= n) \/ (3 * n <= hue /\ hue < 4 * n)
  IN  IF exact.num % exact.den = 0 /\ exact.num > 0 /\ sloped /\ down
      THEN (exact.num \div exact.den) - 1
      ELSE exact.num \div exact.den

\* hls_palette(n_colors, h=0.5, l=0.5, s=1.0): the k-th hue is
\* (k - 1) / n_colors + 1 / 2, and the three channels read the hue a third
\* above, the hue, and the hue a third below.  low is the set of entries whose
\* rounding errors fall below.
HlsPalette(n_colors, low) ==
  [k \in 1..n_colors |->
     LET h == 6 * (k - 1) + 3 * n_colors
     IN  Hex(<<HueChannel(h + 2 * n_colors, n_colors, k \in low),
               HueChannel(h, n_colors, k \in low),
               HueChannel(h + 4 * n_colors, n_colors, k \in low)>>, FALSE)]

RECURSIVE Factorial(_)
Factorial(n) == IF n <= 1 THEN 1 ELSE n * Factorial(n - 1)

\* the categorical branch of prepare_properties, lines 344-350: [outcome,
\* colors, color_dict, palette].  The mean of x_coord_point over a group is
\* a fraction of its size; every coordinate is multiplied by the factorial of
\* the number of records, which keeps the means whole and the order of the
\* distances.  order_records is given the group means and, for y, the column
\* of all the records.
PrepareCategorical(color_arr, x_coord_point, y_coord_point, low) ==
  LET index == Ascending(ValueSet(color_arr))
      n_colors == Cardinality(ValueSet(color_arr))
      unit == Factorial(Len(color_arr))
      members(v) == {i \in 1..Len(color_arr) : color_arr[i] = v}
      RECURSIVE Sum(_)
      Sum(S) == IF S = {} THEN 0
                ELSE LET i == CHOOSE j \in S : TRUE
                     IN  x_coord_point[i] + Sum(S \ {i})
      mean == [g \in 1..n_colors |->
                 (Sum(members(index[g])) * unit) \div Cardinality(members(index[g]))]
      ordered == OrderRecords(mean,
                              [i \in 1..Len(y_coord_point) |-> y_coord_point[i] * unit])
      palette == HlsPalette(n_colors, low)
      color_dict == [v \in ValueSet(color_arr) |->
                       palette[ordered.score[PlaceIn(index, v)] + 1]]
  IN  IF ordered.outcome # OK
      THEN [outcome |-> ordered.outcome, colors |-> <<>>, color_dict |-> <<>>,
            palette |-> palette]
      ELSE [outcome |-> OK,
            colors |-> [i \in 1..Len(color_arr) |-> color_dict[color_arr[i]]],
            color_dict |-> color_dict,
            palette |-> palette]

MaxArr == 4

\* palettes of no, one, two and three colours, and one that repeats a colour
Palettes ==
  {<<>>, <<"#1b9e77">>, <<"#1b9e77", "#d95f02">>,
   <<"#1b9e77", "#d95f02", "#7570b3">>, <<"#1b9e77", "#1b9e77">>}

CategoryInit ==
  /\ NewSession /\ api_key = None
  /\ \E n \in 0..MaxArr :
       \/ input \in [fn : {"assign_colors"},
                     color_arr : [1..n -> ValueSet(Alphabet)],
                     categorical_palette : Palettes]
       \/ input \in [fn : {"prepare_properties"},
                     color_arr : [1..n -> ValueSet(Alphabet)],
                     x_coord_point : [1..n -> {0, 3}],
                     y_coord_point : {[i \in 1..n |-> 0], [i \in 1..n |-> i % 2]}]
  /\ result = None

\* assign_colors(color_arr, categorical_palette=categorical_palette)
Assign ==
  /\ input.fn = "assign_colors"
  /\ \E value_order \in Orderings(ValueSet(input.color_arr)) :
       result' = Some(AssignColors(input.color_arr, input.categorical_palette,
                                   value_order))
  /\ UNCHANGED <<session, last, done, calls, input>>

\* prepare_properties for a column of categorical values
Categorical ==
  /\ input.fn = "prepare_properties"
  /\ \E low \in SUBSET (1..Cardinality(ValueSet(input.color_arr))) :
       result' = Some(PrepareCategorical(input.color_arr, input.x_coord_point,
                                         input.y_coord_point, low))
  /\ UNCHANGED <<session, last, done, calls, input>>

CategoryNext == Assign \/ Categorical

CategorySpec == CategoryInit /\ [][CategoryNext]_vars

--------------------------------------------------------------------------
\* make_colorbar of bokeh_utils.py applied on its own.  A colour is the
\* triple of its channels; hex strings written in small letters compare as
\* their triples do.

\* the colour at place i is seen for the last time
LastSeen(colors, i) == \A j \in (i + 1)..Len(colors) : colors[j] # colors[i]

\* lines 371-374: color not in seen, at place i
FirstSeen(colors, i) == \A j \in 1..(i - 1) : colors[j] # colors[i]

\* tuple comparison of two (value, colour) pairs
PairBefore(p, q) ==
  \/ p[1] < q[1]
  \/ /\ p[1] = q[1]
     /\ \/ p[2][1] < q[2][1]
        \/ p[2][1] = q[2][1] /\ p[2][2] < q[2][2]
        \/ p[2][1] = q[2][1] /\ p[2][2] = q[2][2] /\ p[2][3] < q[2][3]

\* sorted(val_list), for pairs that differ from one another
SortedPairs(val_list) ==
  CHOOSE o \in [1..Cardinality(val_list) -> val_list] :
    \A j, k \in DOMAIN o : j < k => PairBefore(o[j], o[k])

\* make_colorbar: [outcome, vals, colors, y, text_y, text], the columns of
\* the two data sources of the bar.  With no value the unpacking of the empty
\* zip raises ValueError.  The names max_ and min_ of the code hold the first
\* and the last entry.
MakeColorbar(values, colors) ==
  LET val_list == {<<values[i], colors[i]>> :
                     i \in {j \in 1..Len(values) : FirstSeen(colors, j)}}
      sorted == SortedPairs(val_list)
      n_opts == Len(sorted)
      opt_inds == [k \in 1..n_opts |-> k - 1]
      max_val == sorted[1][1]
      max_ind == opt_inds[1]
      min_val == sorted[n_opts][1]
      min_ind == opt_inds[n_opts]
  IN  IF Len(values) = 0
      THEN [outcome |-> "ValueError"]
      ELSE [outcome |-> OK,
            vals |-> [k \in 1..n_opts |-> sorted[k][1]],
            colors |-> [k \in 1..n_opts |-> sorted[k][2]],
            y |-> opt_inds,
            text_y |-> <<min_ind + 1, max_ind - 1>>,
            text |-> <<min_val, max_val>>]

MaxBar == 3

BarValues == {-1, 0, 2}

BarColors == {<<255, 0, 0>>, <<255, 128, 0>>, <<0, 0, 255>>}

ColorbarInit ==
  /\ NewSession /\ api_key = None
  /\ \E n \in 0..MaxBar :
       input \in [values : [1..n -> BarValues], colors : [1..n -> BarColors]]
  /\ result = None

\* make_colorbar(values, colors, bar_height)
Colorbar ==
  /\ result' = Some(MakeColorbar(input.values, input.colors))
  /\ UNCHANGED <<session, last, done, calls, input>>

ColorbarNext == Colorbar

ColorbarSpec == ColorbarInit /\ [][ColorbarNext]_vars

--------------------------------------------------------------------------
\* Properties of the workflow gate.  In a step of a session, the unprimed
\* variables are the session before the call and last' is the call made.

\* the place of a stage in done
FirstReturn(stage) == CHOOSE i \in 1..Len(done) : done[i] = stage

\* both stages have returned normally, a first
InOrder(a, b) == a \in Done /\ b \in Done /\ FirstReturn(a) < FirstReturn(b)

\* the call made in this step got past the workflow check
Passed == last'.outcome # WorkflowOrderError

\* C1: once render_plot has returned normally, every later call of any stage,
\* render_plot included, fails with WorkflowOrderError.
C1_TerminalAfterRender ==
  [][ "render_plot" \in Done => last'.outcome = WorkflowOrderError ]_vars

\* a second render_plot, after one that returned normally, got past the
\* workflow check
C1_Witness ==
  /\ last.stage = "render_plot" /\ last.pre["render_plot"]
  /\ "render_plot" \in Done /\ last.outcome # WorkflowOrderError

\* C2: render_plot passes the workflow check exactly when the add_source,
\* prepare_plot and add_layer flags are all true; a render_plot that returns
\* normally comes after an add_source, a prepare_plot and an add_layer that
\* returned normally in that order; render_plot before any add_layer fails
\* with WorkflowOrderError.
C2_RenderGate ==
  [][ last'.stage = "render_plot" =>
        /\ Passed <=> (validation["add_source"] /\ validation["prepare_plot"]
                         /\ validation["add_layer"])
        /\ last'.outcome = OK =>
             InOrder("add_source", "prepare_plot") /\ InOrder("prepare_plot", "add_layer")
        /\ "add_layer" \notin Done => last'.outcome = WorkflowOrderError ]_vars

\* a render_plot returned normally after add_source, prepare_plot, add_layer
C2_Witness ==
  /\ last.stage = "render_plot" /\ last.outcome = OK
  /\ done = <<"add_source", "prepare_plot", "add_layer", "render_plot">>

\* C3: add_layer passes the workflow check exactly when the add_source and
\* prepare_plot flags are true and the render_plot flag is false; add_layer
\* before prepare_plot fails with WorkflowOrderError and adds no glyph, no
\* legend item and no colour column.
C3_LayerGate ==
  [][ last'.stage = "add_layer" =>
        /\ Passed <=> (validation["add_source"] /\ validation["prepare_plot"]
                         /\ ~validation["render_plot"])
        /\ "prepare_plot" \notin Done =>
             /\ last'.outcome = WorkflowOrderError
             /\ UNCHANGED <<plot, legend, columndatasources, colorbar, remove_columns>> ]_vars

\* add_layer was called with a source registered and no plot prepared
C3_Witness ==
  /\ last.stage = "add_layer" /\ last.outcome = WorkflowOrderError
  /\ "add_source" \in Done /\ "prepare_plot" \notin Done
  /\ IsNone(plot) /\ legend = 0

\* C4: prepare_plot passes the workflow check exactly when the add_source flag
\* is true and the add_layer and render_plot flags are false: it may follow
\* add_widget and may be repeated, and it is rejected with WorkflowOrderError
\* once a layer has been added or the plot rendered.
C4_PrepareGate ==
  [][ last'.stage = "prepare_plot" =>
        /\ Passed <=> (validation["add_source"] /\ ~validation["add_layer"]
                         /\ ~validation["render_plot"])
        /\ ("add_layer" \in Done \/ "render_plot" \in Done) =>
             last'.outcome = WorkflowOrderError ]_vars

\* prepare_plot was repeated after an add_widget and returned normally
C4_Witness ==
  /\ last.stage = "prepare_plot" /\ last.outcome = OK
  /\ last.pre["prepare_plot"] /\ last.pre["add_widget"]

\* C5: add_widget passes the workflow check exactly when the add_source flag
\* is true and the prepare_plot, add_layer and render_plot flags are false;
\* otherwise it fails with WorkflowOrderError.
C5_WidgetGate ==
  [][ last'.stage = "add_widget" =>
        Passed <=> (validation["add_source"] /\ ~validation["prepare_plot"]
                      /\ ~validation["add_layer"] /\ ~validation["render_plot"]) ]_vars

\* add_widget was rejected because the plot had been prepared
C5_Witness ==
  /\ last.stage = "add_widget" /\ last.outcome = WorkflowOrderError
  /\ last.pre["add_source"] /\ last.pre["prepare_plot"]

\* C6: add_source passes the workflow check exactly when the add_widget,
\* prepare_plot, add_layer and render_plot flags are all false: it may be
\* repeated at the start of a session and is rejected with WorkflowOrderError
\* after any later stage has returned normally.
C6_SourceGate ==
  [][ last'.stage = "add_source" =>
        /\ Passed <=> (~validation["add_widget"] /\ ~validation["prepare_plot"]
                         /\ ~validation["add_layer"] /\ ~validation["render_plot"])
        /\ Done \cap {"add_widget", "prepare_plot", "add_layer", "render_plot"} # {} =>
             last'.outcome = WorkflowOrderError ]_vars

\* add_source was rejected after an add_widget, with no plot prepared yet
C6_Witness ==
  /\ last.stage = "add_source" /\ last.outcome = WorkflowOrderError
  /\ last.pre["add_widget"] /\ ~last.pre["prepare_plot"]

\* C7: add_path passes the workflow check only when add_source and
\* prepare_plot have returned normally, render_plot has not and no widget has
\* been added; in no session do both an add_widget and an add_path return
\* normally.
C7_PathGate ==
  [][ /\ (last'.stage = "add_path" /\ Passed) =>
           /\ validation["add_source"] /\ validation["prepare_plot"]
           /\ ~validation["render_plot"] /\ ~validation["add_widget"]
           /\ "add_source" \in Done /\ "prepare_plot" \in Done
           /\ "render_plot" \notin Done /\ "add_widget" \notin Done
      /\ ~({"add_path", "add_widget"} \subseteq Done') ]_vars

\* add_path was rejected on a prepared plot because a widget had been added
C7_Witness ==
  /\ last.stage = "add_path" /\ last.outcome = WorkflowOrderError
  /\ last.pre["prepare_plot"] /\ ~last.pre["render_plot"]
  /\ "add_widget" \in Done

\* C8: each validation flag only ever changes from false to true, and only
\* when its own stage returns normally; add_path and add_data_table change
\* no flag.
C8_FlagsMonotone ==
  [][ /\ \A s \in Stages :
           /\ validation[s] => validation'[s]
           /\ (~validation[s] /\ validation'[s]) =>
                (last'.stage = s /\ last'.outcome = OK)
      /\ last'.stage \in {"add_path", "add_data_table"} => UNCHANGED validation ]_vars

\* render_plot raised while showing or saving the plot, with its flag set
C8_Witness ==
  /\ last.stage = "render_plot" /\ last.outcome = "IOError"
  /\ ~last.pre["render_plot"] /\ validation["render_plot"]

\* C9: a call of a stage method that raises leaves every field of the
\* session as it was before the call.
C9_NoPartialMutation ==
  [][ last'.outcome # OK => UNCHANGED session ]_vars

\* add_source raised on its uid argument, with the coordinate bounds set and
\* no source registered
C9_Witness ==
  /\ last.stage = "add_source" /\ last.outcome = "KeyError"
  /\ DOMAIN sources = {} /\ ~IsNone(xmin)

\* C10: when the normalization of a record of the batch raises, add_source
\* raises that error and registers nothing: sources, the coordinate bounds,
\* remove_columns and the validation flags are as before the call.
C10_AllOrNothing ==
  [][ (last'.stage = "add_source" /\ last'.bad > 0) =>
        /\ last'.outcome # OK
        /\ last'.outcome = last'.norm
        /\ UNCHANGED <<sources, xmin, xmax, ymin, ymax, remove_columns, validation>> ]_vars

\* with a source registered, add_source was given a batch whose first record
\* normalizes and whose second does not
C10_Witness ==
  /\ last.stage = "add_source" /\ last.bad = 2 /\ last.outcome # OK
  /\ "a" \in DOMAIN sources /\ validation["add_source"]

\* the rule a message of _validate_workflow names: the flag it speaks of and
\* the value it asks of that flag ("must be called before" asks TRUE, "cannot
\* ... after" and "has already been called" ask FALSE)
RuleNamed(msg) ==
  CASE msg \in {"Method add_source must be called before adding a widget.",
                "Method add_source must be called before calling prepare_plot.",
                "Method add_source must be called before adding a layer.",
                "Method add_source must be called before rendering the plot.",
                "Method add_source must be called before adding a path.",
                "Method add_source must be called before adding a data table."} ->
         [flag |-> "add_source", required |-> TRUE]
    [] msg \in {"Method prepare_plot must be called before rendering the plot.",
                "Method prepare_plot must be called before adding a path.",
                "Method prepare_plot must be called before adding a data table."} ->
         [flag |-> "prepare_plot", required |-> TRUE]
    [] msg = "Method add_layer must be called before rendering the plot." ->
         [flag |-> "add_layer", required |-> TRUE]
    [] msg \in {"New sources cannot be added after add_widget has been called.",
                "Plot contains widgets, which are not compatible with paths."} ->
         [flag |-> "add_widget", required |-> FALSE]
    [] msg \in {"New sources cannot be added after prepare_plot has been called.",
                "New widgets cannot be added after prepare_plot has been called.",
                "New layers cannot be added after prepare_plot has been called."} ->
         [flag |-> "prepare_plot", required |-> FALSE]
    [] msg \in {"New sources cannot be added after add_layer has been called.",
                "New widgets cannot be added after add_layer has been called.",
                "Plot cannot be prepared after add_layer has been called."} ->
         [flag |-> "add_layer", required |-> FALSE]
    [] msg = "Method render_plot has already been called. Start new workflow." ->
         [flag |-> "render_plot", required |-> FALSE]

\* C11: a call stopped by the workflow check carries a message naming a rule
\* that the flags it started from violate (so that two different violated
\* rules of a stage never share a message).
C11_MessageNamesRule ==
  last.outcome = WorkflowOrderError =>
    last.pre[RuleNamed(last.msg).flag] # RuleNamed(last.msg).required

\* add_layer was called before prepare_plot and the message says layers
\* cannot be added after prepare_plot
C11_Witness ==
  /\ last.stage = "add_layer" /\ last.outcome = WorkflowOrderError
  /\ ~last.pre["prepare_plot"]
  /\ last.msg = "New layers cannot be added after prepare_plot has been called."

\* a bound that is set stays set and moves only outwards: down for a lower
\* bound (dir = -1), up for an upper bound (dir = 1)
Widens(cur, nxt, dir) ==
  ~IsNone(cur) => (~IsNone(nxt) /\ dir * Val(nxt) >= dir * Val(cur))

\* every coordinate of the rows lies within the bounds
Contained(rows, x0, x1, y0, y1) ==
  /\ ~IsNone(x0) /\ ~IsNone(x1) /\ ~IsNone(y0) /\ ~IsNone(y1)
  /\ \A x \in XCoords(rows) : Val(x0) <= x /\ x <= Val(x1)
  /\ \A y \in YCoords(rows) : Val(y0) <= y /\ y <= Val(y1)

\* C12: over any sequence of add_source calls xmin and ymin never increase and
\* xmax and ymax never decrease, and after an add_source that returned
\* normally the bounds contain every x and y coordinate of the source added.
C12_BoundsWiden ==
  [][ /\ Widens(xmin, xmin', -1) /\ Widens(ymin, ymin', -1)
      /\ Widens(xmax, xmax', 1) /\ Widens(ymax, ymax', 1)
      /\ (last'.stage = "add_source" /\ last'.outcome = OK) =>
           \A l \in DOMAIN sources' : Contained(sources'[l].rows, xmin', xmax', ymin', ymax') ]_vars

\* a second source was added and the bounds kept by the first are wider than
\* the second source
C12_Witness ==
  /\ last.stage = "add_source" /\ last.outcome = OK /\ last.pre["add_source"]
  /\ Val(xmin) < SetMin(XCoords(sources["a"].rows))
  /\ Val(ymin) < SetMin(YCoords(sources["a"].rows))

\* the pair lies within the longitude and latitude bounds
InRange(v) == -180 <= v.x /\ v.x <= 180 /\ -90 <= v.y /\ v.y <= 90

\* C13: a tuple or list is normalized to a point exactly when it has two
\* elements, the first within [-180, 180] and the second within [-90, 90];
\* every other tuple is rejected with the out-of-range error.
C13_PairInRange ==
  (~IsNone(result) /\ input.kind \in {"pair", "single", "triple"}) =>
    /\ Val(result) = OK <=> (input.kind = "pair" /\ InRange(input))
    /\ Val(result) # OK => Val(result) = "ValueError"

\* a pair whose latitude is out of range was normalized to a point
C13_Witness ==
  /\ ~IsNone(result) /\ input = Rec("pair", 0, 91) /\ Val(result) = OK

\* the keywords the specification lists as supported
SupportedKeywords ==
  {<<"P", "O", "I", "N", "T">>,
   <<"L", "I", "N", "E", "S", "T", "R", "I", "N", "G">>,
   <<"L", "I", "N", "E", "A", "R", "R", "I", "N", "G">>,
   <<"P", "O", "L", "Y", "G", "O", "N">>,
   <<"M", "U", "L", "T", "I", "P", "O", "I", "N", "T">>,
   <<"M", "U", "L", "T", "I", "L", "I", "N", "E", "S", "T", "R", "I", "N", "G">>,
   <<"M", "U", "L", "T", "I", "P", "O", "L", "Y", "G", "O", "N">>,
   <<"G", "E", "O", "M", "E", "T", "R", "Y", "C", "O", "L", "L", "E", "C", "T", "I", "O", "N">>}

\* C14: a string that starts with a supported WKT keyword passes
\* validate_wellknowntext and is handed to the WKT parser; it is never
\* rejected as neither a geohash nor well-known text.
C14_KeywordAccepted ==
  (/\ ~IsNone(result) /\ input.kind = "str"
   /\ \E k \in SupportedKeywords : StartsWith(input.text, k)) =>
    /\ ValidateWellknowntext(input.text)
    /\ Val(result) = WktLoads(input.text)

\* a well-formed <<"L", "I", "N", "E", "A", "R", "R", "I", "N", "G", "(..)">>ING text was rejected by the router
C14_Witness ==
  /\ ~IsNone(result)
  /\ input = Str(<<"L", "I", "N", "E", "A", "R", "R", "I", "N", "G", "(..)">>)
  /\ Val(result) = "ValueError"

\* a batch of strings of the geohash alphabet, none longer than 12
GeohashBatch(data) ==
  /\ Len(data) > 0
  /\ \A i \in 1..Len(data) :
       /\ data[i].kind = "str"
       /\ Len(data[i].text) <= 12
       /\ \A j \in 1..Len(data[i].text) : InBase32(data[i].text[j])

\* C15: a batch of geohash strings, none of which is a feature or geometry
\* record, is normalized record by record by the router to geohash boxes,
\* codes made of digits included.
C15_GeohashBatch ==
  (~IsNone(result) /\ GeohashBatch(input)) =>
    /\ Val(result).path = "process_input_value"
    /\ Val(result).outcome = OK

\* a batch of two digit-only geohashes was handled as feature data and failed
C15_Witness ==
  /\ ~IsNone(result)
  /\ input = <<Str(<<"1", "2">>), Str(<<"7">>)>>
  /\ Val(result).path = "import_geojson"
  /\ Val(result).outcome = "TypeError"

\* some record of the batch fails the feature-data check
Mixed(data) == \E i \in 1..Len(data) : ~DetectGeojson(data[i])

\* C16: the batch takes the feature-collection path exactly when every
\* record passes the feature-data check; when one record does not, every
\* record, those that pass the check included, goes through the router.
C16_PathChoice ==
  ~IsNone(result) =>
    /\ Val(result).path = "import_geojson" <=> ~Mixed(input)
    /\ ~Mixed(input) =>
         Val(result).outcome =
           FirstError([i \in 1..Len(input) |-> ImportGeojson(input[i])], 1)
    /\ Mixed(input) =>
         /\ Val(result).path = "process_input_value"
         /\ Val(result).outcome =
              FirstError([i \in 1..Len(input) |-> ProcessInputValue(input[i])], 1)

\* a feature record in a batch with a geohash was given to the router, which
\* rejected it
C16_Witness ==
  /\ ~IsNone(result)
  /\ input = <<Str(<<"{", "geometry", "}">>), Str(<<"d", "r">>)>>
  /\ Val(result).path = "process_input_value"
  /\ Val(result).outcome = "ValueError"
  /\ Val(result).bad = 1

\* the code has a character outside the alphabet, or more than 12 characters
InvalidCode(code) ==
  Len(code) > 12 \/ \E i \in 1..Len(code) : ~InBase32(code[i])

\* C17: geohash_to_centroid and geohash_to_shape fail for every code with a
\* character outside the alphabet and for every code longer than 12
\* characters, and succeed for every other code.
C17_DecodeValidates ==
  ~IsNone(result) =>
    /\ Val(result).centroid.outcome # OK <=> InvalidCode(input)
    /\ Val(result).shape.outcome # OK <=> InvalidCode(input)

\* a code of 13 characters of the alphabet was decoded
C17_Witness ==
  /\ ~IsNone(result)
  /\ input = Repeat("d", 13)
  /\ Val(result).centroid.outcome = OK
  /\ Val(result).shape.outcome = OK

\* C18: for a valid geohash the box of geohash_to_shape is centred on the
\* (latitude, longitude) of geohash_to_centroid, its half-widths are the two
\* errors, and its sides are the ends of the final bisection ranges.
C18_BoxIsFinalRange ==
  (~IsNone(result) /\ ValidateGeohash(input) /\ Len(input) <= ExactLen) =>
    LET c == Val(result).centroid
        b == Val(result).shape
    IN  /\ c.outcome = OK /\ b.outcome = OK
        /\ b.minx + b.maxx = 2 * c.longitude
        /\ b.miny + b.maxy = 2 * c.latitude
        /\ b.maxx - b.minx = 2 * c.longitude_error
        /\ b.maxy - b.miny = 2 * c.latitude_error
        /\ <<b.minx, b.maxx>> = c.longitude_range
        /\ <<b.miny, b.maxy>> = c.latitude_range
        /\ b.minx < b.maxx /\ b.miny < b.maxy

\* the code dr was decoded to the box [-78.75, -67.5] x [39.375, 45] degrees
C18_Witness ==
  /\ ~IsNone(result)
  /\ input = <<"d", "r">>
  /\ Val(result).shape = [outcome |-> OK, minx |-> -80640, miny |-> 40320,
                          maxx |-> -69120, maxy |-> 46080]

\* the lists from the i-th on, joined end to end
RECURSIVE Concat(_, _)
Concat(lists, i) ==
  IF i > Len(lists) THEN <<>> ELSE lists[i] \o Concat(lists, i + 1)

\* the rings of every polygonal part of a geometry, part by part in order
RECURSIVE PartRings(_)
PartRings(shp) ==
  IF shp.parts = <<>> /\ shp.rings # <<>> THEN <<shp.rings>>
  ELSE Concat([i \in 1..Len(shp.parts) |-> PartRings(shp.parts[i])], 1)

\* C19: for a multi-part geometry or a collection the output has one
\* [exterior, hole, ...] entry for every polygonal part, in order and none
\* dropped, a multi-part member of a collection included; the x and y
\* outputs have the same nesting shape.
C19_EveryPartKept ==
  (~IsNone(result) /\ input.rings = <<>>) =>
    LET r == Val(result)
        want == PartRings(input)
    IN  /\ r.outcome = OK
        /\ r.xs = [i \in 1..Len(want) |-> PolygonToNestedList(want[i]).x]
        /\ r.ys = [i \in 1..Len(want) |-> PolygonToNestedList(want[i]).y]
        /\ Len(r.xs) = Len(r.ys)
        /\ \A i \in 1..Len(r.xs) : Len(r.xs[i]) = Len(r.ys[i])

\* a collection of a two-polygon MultiPolygon was flattened to one entry
C19_Witness ==
  /\ ~IsNone(result)
  /\ input = Multi("GeometryCollection",
                   <<Multi("MultiPolygon", <<Single("Polygon", <<1>>),
                                             Single("Polygon", <<2, 3>>)>>)>>)
  /\ Val(result).outcome = OK
  /\ Val(result).xs = << <<<<"x", 1>>>> >>

\* the values of the input
ValuesOf(vals) == {vals[i] : i \in 1..Len(vals)}

\* the input has a negative value, a positive value and a zero
SpansZero(vals) ==
  /\ Len(vals) > 0
  /\ \E i \in 1..Len(vals) : vals[i] < 0
  /\ \E i \in 1..Len(vals) : vals[i] > 0
  /\ \E i \in 1..Len(vals) : vals[i] = 0

\* the channel j does not move away from the colour at the far end
\* as the value goes from vals[a] to vals[b]
Toward(colors, a, b, j, near, far) ==
  IF far[j] >= near[j] THEN colors[a].rgb[j] <= colors[b].rgb[j]
  ELSE colors[a].rgb[j] >= colors[b].rgb[j]

Apart(i, j) ==
  (input.x_coords[i] - input.x_coords[j]) * (input.x_coords[i] - input.x_coords[j])
  + (input.y_coords[i] - input.y_coords[j]) * (input.y_coords[i] - input.y_coords[j])

\* the record visited at step k, by the score returned
VisitedAt(k) == CHOOSE i \in 1..Len(Val(result).score) : Val(result).score[i] = k

Distinct(seq) == \A j, k \in DOMAIN seq : j # k => seq[j] # seq[k]

C21_WitnessBranch ==
  /\ ~IsNone(result)
  /\ input.fn = "prepare_properties"
  /\ input.color_arr = <<"b", "a", "c">>
  /\ Val(result).outcome = OK
  /\ Cardinality({Val(result).colors[i] : i \in 1..3}) = 3

\* the values listed by descending number of occurrences in color_arr, ties
\* in ascending order
ByFrequency(color_arr) ==
  LET num(v) == Cardinality({i \in 1..Len(color_arr) : color_arr[i] = v})
  IN  CHOOSE o \in Orderings(ValueSet(color_arr)) :
        \A j, k \in DOMAIN o : j < k =>
          \/ num(o[j]) > num(o[k])
          \/ num(o[j]) = num(o[k]) /\ Rank(o[j]) < Rank(o[k])

\* C22: with more distinct values than the P colours of the palette,
\* assign_colors ranks the values by descending frequency (ties in ascending
\* order), gives the P-1 most frequent their own colours palette[0..P-2] and
\* every other value the colour palette[P-1].
C22_FrequencyRank ==
  (/\ ~IsNone(result)
   /\ input.fn = "assign_colors"
   /\ Len(input.categorical_palette) >= 1
   /\ Cardinality(ValueSet(input.color_arr)) > Len(input.categorical_palette)) =>
    LET r == Val(result)
        P == Len(input.categorical_palette)
        ranked == ByFrequency(input.color_arr)
    IN  /\ r.outcome = OK
        /\ \A k \in DOMAIN ranked :
             r.color_dict[ranked[k]] =
               input.categorical_palette[IF k < P THEN k ELSE P]
        /\ \A i \in 1..Len(input.color_arr) :
             r.colors[i] = r.color_dict[input.color_arr[i]]

\* the value that occurs twice got the shared colour, and the greatest value,
\* which occurs once, the first colour
C22_Witness ==
  /\ ~IsNone(result)
  /\ input.fn = "assign_colors"
  /\ input.color_arr = <<"a", "a", "b", "c">>
  /\ input.categorical_palette = <<"#1b9e77", "#d95f02">>
  /\ Val(result).outcome = OK
  /\ Val(result).colors = <<"#d95f02", "#d95f02", "#d95f02", "#1b9e77">>

\* the p-th bit of the code, five bits to the character, the most
\* significant first
BitAt(code, p) ==
  (Base32Index(code[((p - 1) \div 5) + 1]) \div (2 ^ (4 - ((p - 1) % 5)))) % 2

\* the lower bound after the bits at the places p, p + 2, ... of the code have
\* halved an interval of the given width m times already
RECURSIVE LowerAfter(_, _, _, _)
LowerAfter(code, p, lower, width) ==
  IF p > 5 * Len(code) THEN lower
  ELSE LowerAfter(code, p + 2,
                  lower + BitAt(code, p) * (width \div 2), width \div 2)

\* C23: geohash_to_centroid reads five bits per character, the most
\* significant first, and gives the 1st, 3rd, 5th ... bit to the longitude
\* and the others to the latitude; a 1 bit keeps the upper half of the
\* interval and a 0 bit the lower half; the result is the midpoints of the
\* final intervals, and the errors are half their widths, 180 / 2^ceil(5n/2)
\* for the longitude and 90 / 2^floor(5n/2) for the latitude.
C23_Bisection ==
  (~IsNone(result) /\ ValidateGeohash(input) /\ Len(input) <= ExactLen) =>
    LET c == Val(result).centroid
        n == Len(input)
        lon_bits == (5 * n + 1) \div 2
        lat_bits == (5 * n) \div 2
        lon_width == (360 * Unit) \div (2 ^ lon_bits)
        lat_width == (180 * Unit) \div (2 ^ lat_bits)
        lon_lower == LowerAfter(input, 1, -180 * Unit, 360 * Unit)
        lat_lower == LowerAfter(input, 2, -90 * Unit, 180 * Unit)
    IN  /\ c.outcome = OK
        /\ c.longitude_range = <<lon_lower, lon_lower + lon_width>>
        /\ c.latitude_range = <<lat_lower, lat_lower + lat_width>>
        /\ 2 * c.longitude = 2 * lon_lower + lon_width
        /\ 2 * c.latitude = 2 * lat_lower + lat_width
        /\ c.longitude_error * (2 ^ lon_bits) = 180 * Unit
        /\ c.latitude_error * (2 ^ lat_bits) = 90 * Unit

\* the code 7 (bits 00111) was decoded to longitude -22.5 and latitude -22.5
\* degrees, each with an error of 22.5 degrees
C23_Witness ==
  /\ ~IsNone(result)
  /\ input = <<"7">>
  /\ Val(result).centroid.longitude = -23040
  /\ Val(result).centroid.latitude = -23040
  /\ Val(result).centroid.longitude_error = 23040
  /\ Val(result).centroid.latitude_error = 23040

\* C25: make_colorbar keeps for each distinct colour the one (value, colour)
\* pair of its first occurrence, orders the kept pairs by ascending value,
\* and makes exactly two labels, for the smallest and the largest value kept,
\* each placed beyond its end of the bar.
C25_Colorbar ==
  (~IsNone(result) /\ Len(input.values) > 0) =>
    LET r == Val(result)
        n == Len(input.values)
        first(c) == CHOOSE i \in 1..n :
                      input.colors[i] = c /\ \A j \in 1..(i - 1) : input.colors[j] # c
        kept == {<<input.values[first(c)], c>> : c \in {input.colors[i] : i \in 1..n}}
    IN  /\ r.outcome = OK
        /\ Len(r.vals) = Cardinality(kept) /\ Len(r.colors) = Len(r.vals)
        /\ {<<r.vals[k], r.colors[k]>> : k \in DOMAIN r.vals} = kept
        /\ \A j, k \in DOMAIN r.vals : j < k => r.vals[j] <= r.vals[k]
        /\ Len(r.text) = 2 /\ Len(r.text_y) = 2
        /\ \E lo, hi \in 1..2 :
             /\ lo # hi
             /\ \A k \in DOMAIN r.vals : r.text[lo] <= r.vals[k] /\ r.vals[k] <= r.text[hi]
             /\ \E k \in DOMAIN r.vals : r.text[lo] = r.vals[k]
             /\ \E k \in DOMAIN r.vals : r.text[hi] = r.vals[k]
             /\ \A k \in DOMAIN r.y : r.text_y[lo] < r.y[k] /\ r.y[k] < r.text_y[hi]
             /\ r.y[1] = r.text_y[lo] + 1
             /\ r.y[Len(r.y)] = r.text_y[hi] - 1

\* a colour that occurs twice kept the value of its first occurrence
C25_Witness ==
  /\ ~IsNone(result)
  /\ input.values = <<2, -1, 0>>
  /\ input.colors = <<<<255, 0, 0>>, <<0, 0, 255>>, <<255, 0, 0>>>>
  /\ Val(result).vals = <<-1, 2>>
  /\ Val(result).colors = <<<<0, 0, 255>>, <<255, 0, 0>>>>
  /\ Val(result).text = <<2, -1>>
  /\ Val(result).text_y = <<2, -1>>

\* the path glyphs of a plot
PathsOf(p) ==
  IF IsNone(p) THEN {}
  ELSE {i \in 1..Len(Val(p).glyphs) : Val(p).glyphs[i].kind = "path"}

\* C26: no call of an accepted sequence discards a path added by add_path or
\* leaves a data table of add_data_table on a column data source that is no
\* longer the current one of its label; so every path and table is still
\* attached when render_plot succeeds.  In a step, a path glyph of the plot
\* is still a glyph of the same plot after it, and every data table reads the
\* current column data source.
C26_AdditionsKept ==
  [][/\ PathsOf(plot) # {} =>
          /\ ~IsNone(plot')
          /\ Val(plot').gen = Val(plot).gen
          /\ \A i \in PathsOf(plot) :
               i <= Len(Val(plot').glyphs) /\ Val(plot').glyphs[i] = Val(plot).glyphs[i]
     /\ \A t \in 1..Len(data_tables') :
          /\ data_tables'[t].label \in DOMAIN columndatasources'
          /\ columndatasources'[data_tables'[t].label].gen = data_tables'[t].gen
    ]_vars

\* prepare_plot was repeated after add_data_table: the table reads the column
\* data source of the first plot, and the session holds the one of the second
C26_Witness ==
  /\ last.stage = "prepare_plot" /\ last.outcome = OK
  /\ Len(data_tables) = 1
  /\ data_tables[1].gen = 1
  /\ columndatasources[data_tables[1].label].gen = 2
  /\ Val(plot).gen = 2 /\ Val(plot).glyphs = <<>>

\* the registered widgets that filter a source: those on the shared custom_js
\* filter and those with a filter of their own
SharedWidgets == {w \in WidgetList : widgets[w].filter = "custom_js"}

OwnWidgets == {w \in WidgetList : widgets[w].filter # "custom_js"}

\* C27: in every reachable state the registered widgets all use the shared
\* custom_js filter or none does, and widgets with a filter of their own are
\* at most one per source label.
C27_OneKindOfWidget ==
  /\ SharedWidgets = {} \/ OwnWidgets = {}
  /\ \A v, w \in OwnWidgets : widgets[v].source = widgets[w].source => v = w

\* add_widget accepted a custom_js widget after a widget without custom_js
C27_Witness ==
  /\ last.stage = "add_widget" /\ last.outcome = OK
  /\ "Slider" \in OwnWidgets
  /\ "w1" \in SharedWidgets
  /\ custom_js = Some({"w1"})
  /\ widgets["Slider"].source = widgets["w1"].source

\* the x and the y coordinates of the sources a session holds
HeldX(held) == UNION {XCoords(held[l].rows) : l \in DOMAIN held}

HeldY(held) == UNION {YCoords(held[l].rows) : l \in DOMAIN held}

\* the four bounds are the extremes of the coordinates of the sources held
ExactBounds(held, x0, x1, y0, y1) ==
  IF DOMAIN held = {} THEN IsNone(x0) /\ IsNone(x1) /\ IsNone(y0) /\ IsNone(y1)
  ELSE /\ x0 = Some(SetMin(HeldX(held))) /\ x1 = Some(SetMax(HeldX(held)))
       /\ y0 = Some(SetMin(HeldY(held))) /\ y1 = Some(SetMax(HeldY(held)))

\* C28: a successful add_source keeps (xmin, xmax, ymin, ymax) equal to the
\* minimum and maximum coordinates over the sources held in self.sources,
\* also when it replaces the source of a label already in use.
C28_BoundsOfHeldSources ==
  [][(/\ ExactBounds(sources, xmin, xmax, ymin, ymax)
      /\ last'.stage = "add_source" /\ last'.outcome = OK)
     => ExactBounds(sources', xmin', xmax', ymin', ymax')]_vars

\* label "a" held the pair (2, 3) and now holds the shape at (0, 1); the
\* bounds still reach to the replaced pair
C28_Witness ==
  /\ last.stage = "add_source" /\ last.outcome = OK
  /\ calls = 2
  /\ DOMAIN sources = {"a"}
  /\ sources["a"].rows = <<<<0, 1>>>>
  /\ xmin = Some(0) /\ xmax = Some(2)
  /\ ymin = Some(1) /\ ymax = Some(3)

\* C29: in every reachable state the prepare_plot flag implies that self.plot
\* is set and that every label of self.sources has a column data source; so
\* a call of add_layer that passes the workflow check never raises the
\* AssertionError of a missing plot.
C29_PreparedPlotIsSet ==
  /\ validation["prepare_plot"] =>
       /\ ~IsNone(plot)
       /\ DOMAIN sources \subseteq DOMAIN columndatasources
  /\ (last.stage = "add_layer" /\ last.msg = Pass) => last.outcome # "AssertionError"

\* add_layer passed the workflow check and drew the glyph of a registered
\* label on the prepared plot
C29_Witness ==
  /\ last.stage = "add_layer" /\ last.msg = Pass /\ last.outcome = OK
  /\ validation["prepare_plot"] /\ validation["add_layer"]
  /\ ~IsNone(plot)
  /\ Len(Val(plot).glyphs) = 1
  /\ Val(plot).glyphs[1].label \in DOMAIN sources
  /\ Val(plot).glyphs[1].label \in DOMAIN columndatasources

\* C30: color_gradient is total on a non-empty array of numbers: it returns
\* one colour with three channels in 0..255 per value and does not raise,
\* also when all the values are equal and when values of both signs leave
\* a single value on one side of zero.
C30_GradientTotal ==
  (~IsNone(result) /\ Len(input.vals) > 0) =>
    /\ Val(result).outcome = OK
    /\ Len(Val(result).colors) = Len(input.vals)
    /\ \A i \in 1..Len(input.vals) : \A j \in 1..3 :
         Val(result).colors[i].rgb[j] \in 0..255

\* two equal values: the range minmax_scale divides by is zero
C30_Witness ==
  /\ ~IsNone(result)
  /\ input.vals = <<1, 1>>
  /\ Val(result).outcome = "ValueError"
  /\ Val(result).colors = <<>>

==========================================================================
